---- MODULE Spec2Model ----
(***************************************************************************)
(* Model of the Symmons agent: the authenticated API client                *)
(* (src/agentic_app/api_client.py) and the tool-calling loop               *)
(* (src/agentic_app/agent.py, src/agentic_app/tools.py).                   *)
(***************************************************************************)
EXTENDS Integers, Sequences, FiniteSets, TLC

VARIABLES
    jwt,            \* SymmonsAPIClient._jwt
    acquired_at,    \* SymmonsAPIClient._token_acquired_at
    environ,        \* os.environ["SYM_API_JWT"]
    now,            \* time.monotonic()
    lastCall,       \* what the last client operation did (HTTP traffic, outcome)
    lastOk,         \* the last _ensure_token that logged in and got a token
    pc,             \* position of SymmonsAgent.run
    messages,       \* run(): messages
    tool_call_log,  \* run(): tool_call_log
    turn,           \* run(): iterations of the for loop started
    pending,        \* run(): tool_calls of the current turn
    idx,            \* run(): position of the inner for loop in pending
    invoked,        \* calls made to registry callables during the run
    outcome,        \* how run() ended: reply, or the exception that left it
    base,           \* run(): length of messages when the loop starts
    postman,        \* SymmonsToolset._postman_index is set
    workflow,       \* run_requirements_workflow: groups, position, files written
    threads         \* two threads inside _request on the one client

clientVars == <<jwt, acquired_at, environ, now, lastCall, lastOk>>
agentVars == <<pc, messages, tool_call_log, turn, pending, idx, invoked, outcome, base,
               postman>>
otherVars == <<workflow, threads>>
vars == <<jwt, acquired_at, environ, now, lastCall, lastOk,
          pc, messages, tool_call_log, turn, pending, idx, invoked, outcome, base,
          postman, workflow, threads>>

-----------------------------------------------------------------------------
(* Bounds and configuration *)

\* token_ttl_seconds, scaled down
TokenTtl == 1
\* the clock stops here
MaxTime == 3
\* max_turns of the agent under test
MaxTurns == 2

None == "<None>"

Truthy(s) == s # None /\ s # ""

\* str.strip() on the strings the model uses
Strip(s) == IF s = "  " THEN "" ELSE s

\* f"{value}" of an Optional[str]
Fmt(s) == IF s = None THEN "None" ELSE s

-----------------------------------------------------------------------------
(* Login payloads and SymmonsAPIClient._extract_token *)

CandidateKeys == <<"token", "accessToken", "jwt", "idToken", "bearer", "key_0">>

\* a JSON value of a login payload: <<type, text>>
PStr(s) == <<"str", s>>
PInt == <<"int", "1">>

NoModel == [kind |-> "absent"]
OtherModel == [kind |-> "other"]
DictModel(p) == [kind |-> "dict", kv |-> p.kv, model |-> p.model]

EmptyKv == [k \in {} |-> PInt]

InnerPayloads ==
    { [kv |-> EmptyKv, model |-> NoModel],
      [kv |-> ("jwt" :> PStr("tA")), model |-> NoModel],
      [kv |-> ("key_0" :> PStr("tB") @@ "token" :> PStr("")), model |-> NoModel],
      [kv |-> ("token" :> PInt), model |-> OtherModel],
      [kv |-> EmptyKv,
       model |-> [kind |-> "dict", kv |-> ("bearer" :> PStr("tC")), model |-> NoModel]] }

Payloads ==
    { [kv |-> EmptyKv, model |-> NoModel],
      [kv |-> EmptyKv, model |-> OtherModel],
      [kv |-> ("token" :> PStr("tA")), model |-> NoModel],
      [kv |-> ("token" :> PStr("") @@ "jwt" :> PStr("tB") @@ "bearer" :> PStr("tA")),
       model |-> NoModel],
      [kv |-> ("accessToken" :> PInt @@ "idToken" :> PStr("tB")), model |-> OtherModel] }
    \cup { [kv |-> EmptyKv, model |-> DictModel(p)] : p \in InnerPayloads }
    \cup { [kv |-> ("token" :> PStr("")), model |-> DictModel(p)] : p \in InnerPayloads }
    \cup { [kv |-> ("jwt" :> PStr("tB")), model |-> DictModel(p)] : p \in InnerPayloads }

\* a probe that keeps the last candidate that holds a non-empty string
FirstCandidate_last(kv, i) ==
    LET hit(j) == /\ CandidateKeys[j] \in DOMAIN kv
                  /\ kv[CandidateKeys[j]][1] = "str"
                  /\ kv[CandidateKeys[j]][2] # ""
        js == { j \in i..Len(CandidateKeys) : hit(j) }
    IN IF js = {} THEN None
       ELSE kv[CandidateKeys[CHOOSE j \in js : \A k \in js : j >= k]][2]

\* the for loop of _extract_token from candidate i on: the first candidate
\* whose value is a non-empty string
FirstCandidate(kv, i) ==
    LET hit(j) == /\ CandidateKeys[j] \in DOMAIN kv
                  /\ kv[CandidateKeys[j]][1] = "str"
                  /\ kv[CandidateKeys[j]][2] # ""
        js == { j \in i..Len(CandidateKeys) : hit(j) }
    IN IF js = {} THEN None
       ELSE kv[CandidateKeys[CHOOSE j \in js : \A k \in js : j <= k]][2]

RECURSIVE _extract_token(_)
_extract_token(payload) ==
    LET top == FirstCandidate(payload.kv, 1)
    IN IF top # None THEN top
       ELSE IF payload.model.kind = "dict"
            THEN _extract_token([kv |-> payload.model.kv, model |-> payload.model.model])
            ELSE None

-----------------------------------------------------------------------------
(* HTTP responses *)

\* the payloads the modelled server answers a login with
LoginPayloads ==
    { [kv |-> ("token" :> PStr("tA")), model |-> NoModel],
      [kv |-> ("token" :> PStr("")),
       model |-> DictModel([kv |-> ("jwt" :> PStr("tB")), model |-> NoModel])],
      [kv |-> ("accessToken" :> PInt), model |-> OtherModel] }

\* a response of POST /api/v2/login
LoginResponses ==
    { [status |-> 200, json |-> TRUE, payload |-> p] : p \in LoginPayloads }
    \cup { [status |-> 200, json |-> FALSE, payload |-> [kv |-> EmptyKv, model |-> NoModel]],
           [status |-> 401, json |-> TRUE, payload |-> [kv |-> EmptyKv, model |-> NoModel]] }

\* a response of a resource request
Responses ==
    { [status |-> 200, json |-> TRUE],
      [status |-> 200, json |-> FALSE],
      [status |-> 401, json |-> TRUE],
      [status |-> 500, json |-> FALSE] }

NoLogin == [status |-> 0, json |-> FALSE, payload |-> [kv |-> EmptyKv, model |-> NoModel]]
NoResponse == [status |-> 0, json |-> FALSE]

\* exceptions: class, message parts
NoError == [cls |-> "", what |-> "", subject |-> "", status |-> 0, text |-> ""]
ApiError(what, subject, status) ==
    [cls |-> "SymmonsAPIError", what |-> what, subject |-> subject, status |-> status,
     text |-> ""]

\* resp.text: the body of a response
BodyText(resp) ==
    CASE resp.status = 401 -> "Unauthorized"
      [] resp.status >= 400 -> "Internal Server Error"
      [] resp.json -> "{...}"
      [] OTHER -> "<html>"

\* the response a server gives to a token it rejects
Unauthorized == [status |-> 401, json |-> TRUE]

\* the error of a response with status >= 400:
\* f"... failed with {resp.status_code}: {resp.text}"
StatusError(what, subject, resp) ==
    [cls |-> "SymmonsAPIError", what |-> what, subject |-> subject,
     status |-> resp.status, text |-> BodyText(resp)]

-----------------------------------------------------------------------------
(* SymmonsAPIClient: token handling.  A client state is
   c = [jwt, at, env]; t is the reading of time.monotonic(). *)

NoOk == [valid |-> FALSE, t |-> 0, tok |-> None, cleared |-> FALSE]

_login(lr) ==
    IF lr.status >= 400
    THEN [raised |-> StatusError("Login failed with", "", lr), token |-> None]
    ELSE IF ~lr.json
    THEN [raised |-> ApiError("Invalid JSON response from", "POST /api/v2/login", 0),
          token |-> None]
    ELSE [raised |-> NoError, token |-> _extract_token(lr.payload)]

\* an expiry test that is off by one
_token_expired_late(c, t) ==
    IF ~Truthy(c.jwt) THEN TRUE ELSE (t - c.at) >= TokenTtl

_token_expired(c, t) ==
    IF ~Truthy(c.jwt) THEN TRUE ELSE (t - c.at) > TokenTtl

\* an _ensure_token that drops the cached token when its login fails
EnsureAfterLogin_clearing(c, l, t) ==
    IF l.raised # NoError
    THEN [c |-> [jwt |-> None, at |-> 0, env |-> c.env], ret |-> None,
          raised |-> l.raised, login |-> TRUE, t |-> t]
    ELSE [c |-> [jwt |-> l.token, at |-> t,
                 env |-> IF Truthy(l.token) THEN l.token ELSE c.env],
          ret |-> l.token, raised |-> NoError, login |-> TRUE, t |-> t]

\* _ensure_token, lines 145-149: l is what _login() did
EnsureAfterLogin(c, l, t) ==
    IF l.raised # NoError
    THEN [c |-> c, ret |-> None, raised |-> l.raised, login |-> TRUE, t |-> t]
    ELSE [c |-> [jwt |-> l.token, at |-> t,
                 env |-> IF Truthy(l.token) THEN l.token ELSE c.env],
          ret |-> l.token, raised |-> NoError, login |-> TRUE, t |-> t]

\* an _ensure_token that hands out a cached token even when told to refresh
_ensure_token_lazy(c, force, lr, t, dur) ==
    IF Truthy(c.jwt) /\ ~_token_expired(c, t)
    THEN [c |-> c, ret |-> c.jwt, raised |-> NoError, login |-> FALSE, t |-> t]
    ELSE EnsureAfterLogin(c, _login(lr), t + dur)

\* _ensure_token(force); lr is the answer the server gives if it is asked to
\* log in, dur the time the login takes
_ensure_token(c, force, lr, t, dur) ==
    IF ~force /\ Truthy(c.jwt) /\ ~_token_expired(c, t)
    THEN [c |-> c, ret |-> c.jwt, raised |-> NoError, login |-> FALSE, t |-> t]
    ELSE EnsureAfterLogin(c, _login(lr), t + dur)

\* the ghost record of the last _ensure_token that logged in and got a token
OkAfter(ok, e) ==
    IF e.login /\ e.raised = NoError /\ e.ret # None
    THEN [valid |-> TRUE, t |-> e.t, tok |-> e.ret, cleared |-> FALSE]
    ELSE ok

NoAuth == "<no Authorization header>"

\* a call of _ensure_token: when, what it was told, what it did, when it
\* returned
EnsureEvent(force, t, ok, e) ==
    [ev |-> "ensure", force |-> force, login |-> e.login, ret |-> e.ret,
     raised |-> e.raised # NoError, op |-> "", auth |-> "", status |-> 0, t |-> t,
     ok |-> ok, text |-> "", done |-> e.t]
\* a call of session.request: the request, its Authorization header, the
\* status of the response
SendEvent(op, token, first, t, resp) ==
    [ev |-> "send", force |-> FALSE, login |-> FALSE, ret |-> None, raised |-> FALSE,
     op |-> op,
     auth |-> IF first /\ ~Truthy(token) THEN NoAuth ELSE Fmt(token),
     status |-> resp.status, t |-> t, ok |-> NoOk, text |-> BodyText(resp), done |-> t]

\* a _request that hands back whatever response it got
Respond_unchecked(e, ok, events, op, resp) ==
    [c |-> e.c, ok |-> ok, t |-> e.t, events |-> events, raised |-> NoError,
     resp |-> resp]

\* _request, lines 136-140: the result for the response that decides
Respond(e, ok, events, op, resp) ==
    [c |-> e.c, ok |-> ok, t |-> e.t, events |-> events,
     raised |-> IF resp.status >= 400 THEN StatusError("failed with", op, resp)
                ELSE NoError,
     resp |-> resp]

\* _request left by the exception of _ensure_token
Propagate(e, ok, events) ==
    [c |-> e.c, ok |-> ok, t |-> e.t, events |-> events, raised |-> e.raised,
     resp |-> NoResponse]

\* a retry that answers a second 401 with a third send
RequestRetry_again(okc, events, op, srv, e2) ==
    IF e2.raised # NoError
    THEN Propagate(e2, OkAfter(okc, e2), events)
    ELSE Respond(e2, OkAfter(okc, e2),
                 IF srv.r2.status = 401
                 THEN events \o <<SendEvent(op, e2.ret, FALSE, e2.t, srv.r2),
                                  SendEvent(op, e2.ret, FALSE, e2.t, srv.r2)>>
                 ELSE events \o <<SendEvent(op, e2.ret, FALSE, e2.t, srv.r2)>>,
                 op, srv.r2)

\* _request, lines 126-135: e2 is what _ensure_token(force=True) did
RequestRetry(okc, events, op, srv, e2) ==
    IF e2.raised # NoError
    THEN Propagate(e2, OkAfter(okc, e2), events)
    ELSE Respond(e2, OkAfter(okc, e2),
                 events \o <<SendEvent(op, e2.ret, FALSE, e2.t, srv.r2)>>, op, srv.r2)

\* a 401 path that goes to the forced login with the rejected token still cached
RequestOn401_keeping(ok1, events, op, srv, e1) ==
    RequestRetry([ok1 EXCEPT !.cleared = TRUE],
                 events \o <<EnsureEvent(TRUE, e1.t, [ok1 EXCEPT !.cleared = TRUE],
                                         _ensure_token(e1.c, TRUE, srv.l2, e1.t, srv.dur))>>,
                 op, srv,
                 _ensure_token(e1.c, TRUE, srv.l2, e1.t, srv.dur))

\* _request, lines 123-125: the first response was a 401
RequestOn401(ok1, events, op, srv, e1) ==
    RequestRetry([ok1 EXCEPT !.cleared = TRUE],
                 events \o <<EnsureEvent(TRUE, e1.t, [ok1 EXCEPT !.cleared = TRUE],
                                         _ensure_token([jwt |-> None, at |-> 0,
                                                        env |-> e1.c.env],
                                                       TRUE, srv.l2, e1.t, srv.dur))>>,
                 op, srv,
                 _ensure_token([jwt |-> None, at |-> 0, env |-> e1.c.env],
                               TRUE, srv.l2, e1.t, srv.dur))

\* _request, lines 113-122: e1 is what _ensure_token() did
RequestSend(ok, t, op, srv, e1) ==
    IF e1.raised # NoError
    THEN Propagate(e1, OkAfter(ok, e1), <<EnsureEvent(FALSE, t, ok, e1)>>)
    ELSE IF srv.r1.status = 401
    THEN RequestOn401(OkAfter(ok, e1),
                      <<EnsureEvent(FALSE, t, ok, e1),
                        SendEvent(op, e1.ret, TRUE, e1.t, srv.r1)>>,
                      op, srv, e1)
    ELSE Respond(e1, OkAfter(ok, e1),
                 <<EnsureEvent(FALSE, t, ok, e1),
                   SendEvent(op, e1.ret, TRUE, e1.t, srv.r1)>>,
                 op, srv.r1)

\* _request(method, path, ...): srv = [l1, r1, l2, r2, dur] is what the server
\* answers to the first login, the first send, the forced login and the re-send
_request(c, ok, t, op, srv) ==
    RequestSend(ok, t, op, srv, _ensure_token(c, FALSE, srv.l1, t, srv.dur))

\* a _parse_json that reports a body that is no JSON as a failed status
_parse_json_as_status(q, op) ==
    IF q.raised = NoError /\ ~q.resp.json
    THEN [q EXCEPT !.raised = StatusError("failed with", op, q.resp)]
    ELSE q

\* _parse_json(resp) after a _request that returned
_parse_json(q, op) ==
    IF q.raised = NoError /\ ~q.resp.json
    THEN [q EXCEPT !.raised = ApiError("Invalid JSON response from", op, 0)]
    ELSE q

\* _get / _post / call_endpoint: _request, then _parse_json
ApiCall(c, ok, t, op, srv) == _parse_json(_request(c, ok, t, op, srv), op)

\* what a server may answer during one call made from client state c at t:
\* an answer is drawn only for a request that is really made
ScriptsFrom(c, t, logins, responses, durs) ==
    LET needs1 == ~(Truthy(c.jwt) /\ ~_token_expired(c, t))
        tail(l1, r1, d) ==
            IF r1.status # 401
            THEN {[l1 |-> l1, r1 |-> r1, l2 |-> NoLogin, r2 |-> NoResponse, dur |-> d]}
            ELSE UNION { { [l1 |-> l1, r1 |-> r1, l2 |-> l2, r2 |-> r2, dur |-> d] :
                             r2 \in (IF _login(l2).raised = NoError
                                     THEN responses ELSE {NoResponse}) } :
                         l2 \in logins }
        mid(l1, d) ==
            UNION { tail(l1, r1, d) :
                      r1 \in (IF _login(l1).raised = NoError \/ ~needs1
                              THEN responses ELSE {NoResponse}) }
    IN UNION { UNION { mid(l1, d) : l1 \in (IF needs1 THEN logins ELSE {NoLogin}) } :
               d \in durs }

-----------------------------------------------------------------------------
(* Python values seen by the agent: [ty, s], s the JSON text of the value
   (the content itself for a str) *)

PNone == [ty |-> "none", s |-> "null"]
Str(s) == [ty |-> "str", s |-> s]
Dict(s) == [ty |-> "dict", s |-> s]

EmptyDict == Dict("{}")
ArgsProperty3 == Dict("{\"property_id\": 3}")
ArgsQuery == Dict("{\"query\": \"water\"}")
ArgsGroupType == Dict("{\"group_type\": 1}")
ArgsWrongKey == Dict("{\"id\": 3}")

\* the keys of the dicts the model uses
DictKeys(v) ==
    CASE v = ArgsProperty3 -> {"property_id"}
      [] v = ArgsQuery -> {"query"}
      [] v = ArgsGroupType -> {"group_type"}
      [] v = ArgsWrongKey -> {"id"}
      [] OTHER -> {}

\* the type of the value a JSON text decodes to; a text outside is malformed
JsonTypes ==
    ( "{}" :> "dict" @@ "{\"property_id\": 3}" :> "dict" @@ "{\"query\": \"water\"}" :> "dict"
      @@ "{\"group_type\": 1}" :> "dict" @@ "{\"id\": 3}" :> "dict"
      @@ "[1]" :> "list" @@ "[\"page\"]" :> "list" @@ "null" :> "none" @@ "5" :> "int" )

\* bool(value)
PyTruthy(v) ==
    CASE v.ty = "none" -> FALSE
      [] v.ty = "str" -> v.s # ""
      [] v.ty = "name" -> v.s # ""
      [] v.ty = "dict" -> v.s # "{}"
      [] v.ty = "list" -> v.s # "[]"
      [] v.ty = "int" -> v.s # "0"
      [] OTHER -> TRUE

\* a or b
PyOr(a, b) == IF PyTruthy(a) THEN a ELSE b

\* json.loads(text): the decoded value, or JSONDecodeError
json_loads(text) ==
    IF text \in DOMAIN JsonTypes
    THEN [raised |-> FALSE, val |-> [ty |-> JsonTypes[text], s |-> text]]
    ELSE [raised |-> TRUE, val |-> PNone]

\* str(value) of a value that is neither None, a str nor a dict
PyStr(v) == v.s

\* json.dumps(value, default=str): the JSON text of a tool result
json_dumps(result) == [ty |-> "json", of |-> result]

-----------------------------------------------------------------------------
(* SymmonsToolset *)

\* TOOL_DEFINITIONS: the function names advertised to the model, in order
TOOL_DEFINITIONS ==
    << "list_property_groups", "get_property_group", "get_property", "list_water_roi",
       "call_symmons_endpoint", "search_postman_endpoints" >>

\* a registry that lacks the search tool
Registry_without_search ==
    { "list_property_groups", "get_property_group", "get_property", "list_water_roi",
      "call_symmons_endpoint" }

\* the keys of SymmonsToolset.registry()
Registry ==
    { "list_property_groups", "get_property_group", "get_property", "list_water_roi",
      "call_symmons_endpoint", "search_postman_endpoints" }

\* the parameters of each wrapper: required, optional
Required(name) ==
    CASE name = "get_property_group" -> {"group_id"}
      [] name = "get_property" -> {"property_id"}
      [] name = "list_water_roi" -> {"property_id"}
      [] name = "call_symmons_endpoint" -> {"method", "path"}
      [] name = "search_postman_endpoints" -> {"query"}
      [] OTHER -> {}

Optional(name) ==
    CASE name = "list_property_groups" -> {"group_type", "search_term", "page", "size", "sort"}
      [] name = "call_symmons_endpoint" -> {"query", "body"}
      [] name = "search_postman_endpoints" -> {"limit", "method", "folder_contains"}
      [] OTHER -> {}

\* the request each wrapper makes through the client
Endpoint(name) ==
    CASE name = "list_property_groups" -> "GET /api/v2/property-groups"
      [] name = "get_property_group" -> "GET /api/v2/property-group/{group_id}"
      [] name = "get_property" -> "GET /api/v2/property/{property_id}"
      [] name = "list_water_roi" -> "GET /api/v2/water-roi/list/{property_id}"
      [] OTHER -> "{method} {path}"

\* the decoded JSON body the server returns for a request
BodyOf(op) ==
    IF op = "GET /api/v2/property/{property_id}" THEN Dict("{\"name\": \"Hotel X\"}")
    ELSE Dict("{\"content\": []}")

\* describe_endpoint(tool_name, args) raises on arguments that are no mapping:
\* args.get on a list, an int or None, `key in args` on an int or None,
\* args[key] on a list that holds the key
describe_endpoint_raises(name, args) ==
    CASE args.ty = "dict" -> FALSE
      [] name = "list_property_groups" ->
            args.ty \in {"none", "int"} \/ args.s = "[\"page\"]"
      [] name \in {"get_property_group", "get_property", "list_water_roi",
                   "call_symmons_endpoint"} -> TRUE
      [] OTHER -> FALSE

describe_endpoint(name, args) ==
    CASE name \in {"list_property_groups", "get_property_group", "get_property",
                   "list_water_roi"} -> <<Endpoint(name), args.s>>
      [] name = "call_symmons_endpoint" -> <<"path", args.s>>
      [] name = "search_postman_endpoints" -> <<"postman_collection_search", "">>
      [] OTHER -> <<None, "">>

-----------------------------------------------------------------------------
(* Tool calls as the model message carries them *)

NoFn == [kind |-> "none", name |-> None, arguments |-> PNone]
FnDict(name, arguments) == [kind |-> "dict", name |-> name, arguments |-> arguments]
FnObject(name, arguments) == [kind |-> "object", name |-> name, arguments |-> arguments]

\* an OpenAI-format call: {"id", "type": "function", "function": {"name", "arguments"}}
LegacyCall(id, name, arguments) ==
    [shape |-> "dict", id |-> id, type |-> "function", function |-> FnDict(name, arguments),
     name |-> None, arguments |-> PNone, args |-> PNone]

\* a flat call that keeps its arguments under "arguments"
FlatCall(id, name, arguments) ==
    [shape |-> "dict", id |-> id, type |-> "tool_call", function |-> NoFn,
     name |-> name, arguments |-> arguments, args |-> PNone]

\* a langchain_core ToolCall: {"name", "args", "id", "type": "tool_call"}
ToolCall(id, name, args) ==
    [shape |-> "dict", id |-> id, type |-> "tool_call", function |-> NoFn,
     name |-> name, arguments |-> PNone, args |-> args]

\* a call given as an object with attributes id, type, function
ObjectCall(id, name, arguments) ==
    [shape |-> "object", id |-> id, type |-> "function",
     function |-> FnObject(name, arguments),
     name |-> None, arguments |-> PNone, args |-> PNone]

\* an entry that loses the call's id
Entry_noid(call) ==
    [id |-> None, type |-> call.type,
     function |-> IF call.function.kind # "none"
                  THEN [name |-> call.function.name,
                        arguments |-> call.function.arguments]
                  ELSE [name |-> call.name, arguments |-> call.arguments]]

\* _extract_tool_calls: one entry of `normalized`
Entry(call) ==
    LET fn == call.function
        inner == IF call.shape = "dict"
                 THEN IF fn.kind # "none"
                      THEN [name |-> fn.name, arguments |-> fn.arguments]
                      ELSE [name |-> call.name, arguments |-> call.arguments]
                 ELSE IF fn.kind = "dict"
                      THEN [name |-> fn.name, arguments |-> fn.arguments]
                      ELSE IF fn.kind # "none"
                           THEN [name |-> fn.name, arguments |-> fn.arguments]
                           ELSE [name |-> call.name, arguments |-> call.arguments]
    IN [id |-> call.id, type |-> call.type, function |-> inner]

\* whether the loop of _extract_tool_calls skips the call: a dict call on a
\* truthy id already seen, an object call on any str id already seen
SeenBefore(call, seen) ==
    IF call.shape = "dict" THEN Truthy(call.id) /\ call.id \in seen
    ELSE call.id # None /\ call.id \in seen

Remembered(call) ==
    IF call.shape = "dict" THEN Truthy(call.id) ELSE call.id # None

RECURSIVE ExtractFrom(_, _)
ExtractFrom(calls, seen) ==
    IF calls = <<>> THEN <<>>
    ELSE LET call == Head(calls)
         IN IF SeenBefore(call, seen) THEN ExtractFrom(Tail(calls), seen)
            ELSE <<Entry(call)>> \o
                 ExtractFrom(Tail(calls),
                             IF Remembered(call) THEN seen \cup {call.id} ELSE seen)

\* an extraction that hands the calls over last first
_extract_tool_calls_reversed(message) ==
    LET kept == ExtractFrom(message.tool_calls \o message.legacy, {})
    IN [i \in 1..Len(kept) |-> kept[Len(kept) + 1 - i]]

\* _extract_tool_calls(message): message.tool_calls, then
\* message.additional_kwargs["tool_calls"]
_extract_tool_calls(message) == ExtractFrom(message.tool_calls \o message.legacy, {})

\* a normalisation that reads str content alone
_normalize_response_content_str(message) ==
    IF message.content.kind = "str" THEN Strip(message.content.s) ELSE ""

\* _normalize_response_content(message)
_normalize_response_content(message) ==
    CASE message.content.kind = "str" -> Strip(message.content.s)
      [] message.content.kind = "list" ->
            IF message.content.part.type = "text" /\ message.content.part.text # ""
            THEN Strip(message.content.part.text) ELSE ""
      [] OTHER -> ""

-----------------------------------------------------------------------------
(* SymmonsAgent._dispatch_tool_call *)

NoMsg == [what |-> "", subject |-> "", status |-> 0, text |-> ""]
\* str(exc)
ExcStr(e) ==
    [what |-> e.what, subject |-> e.subject, status |-> e.status, text |-> e.text]
ErrorResult(msg) == [error |-> TRUE, val |-> PNone, msg |-> msg]
ValueResult(v) == [error |-> FALSE, val |-> v, msg |-> NoMsg]

TypeError(name) ==
    [cls |-> "TypeError", what |-> "bad call of", subject |-> name, status |-> 0,
     text |-> ""]
ValueError(what) ==
    [cls |-> "ValueError", what |-> what, subject |-> "", status |-> 0, text |-> ""]

\* lines 158-169: the arguments as a mapping, or JSONDecodeError
ParseArguments(arguments) ==
    CASE arguments.ty = "none" -> [raised |-> FALSE, val |-> EmptyDict]
      [] arguments.ty = "str" -> json_loads(IF arguments.s = "" THEN "{}" ELSE arguments.s)
      [] arguments.ty = "dict" -> [raised |-> FALSE, val |-> arguments]
      [] OTHER -> json_loads(PyStr(arguments))

\* whether self.tool_registry[name](**parsed_args) enters the wrapper
Binds(name, parsed) ==
    /\ parsed.ty = "dict"
    /\ Required(name) \subseteq DictKeys(parsed)
    /\ DictKeys(parsed) \subseteq Required(name) \cup Optional(name)

\* whether the wrapper calls the client
ReachesClient(name, arguments) ==
    /\ name \in Registry \ {"search_postman_endpoints"}
    /\ ~ParseArguments(arguments).raised
    /\ Binds(name, ParseArguments(arguments).val)

NoCall == [op |-> "", events |-> <<>>, raised |-> NoError]
NoScript == [l1 |-> NoLogin, r1 |-> NoResponse, l2 |-> NoLogin, r2 |-> NoResponse, dur |-> 0]

\* an except clause that lets the client's errors through
Caught_except_client(exc) == exc.cls # "SymmonsAPIError"

\* an except clause that takes the client's errors alone
Caught_only_client(exc) == exc.cls = "SymmonsAPIError"

\* lines 170-174: the exceptions the except clause takes
Caught(exc) == TRUE

Untouched(c, ok, t) == [c |-> c, ok |-> ok, t |-> t, call |-> NoCall]

\* a wrapper that calls the client: q is what the client call did
InvokeClient(name, q) ==
    [c |-> q.c, ok |-> q.ok, t |-> q.t,
     call |-> [op |-> Endpoint(name), events |-> q.events, raised |-> q.raised],
     entered |-> TRUE, raised |-> q.raised,
     ret |-> IF q.raised = NoError THEN BodyOf(Endpoint(name)) ELSE PNone]

\* self.tool_registry[name](**parsed_args): the wrapper's effect on the client,
\* and what it returns or raises
Invoke(name, parsed, c, ok, t, srv, hasIndex) ==
    IF ~Binds(name, parsed)
    THEN Untouched(c, ok, t)
         @@ [entered |-> FALSE, raised |-> TypeError(name), ret |-> PNone]
    ELSE IF name = "search_postman_endpoints"
    THEN IF hasIndex
         THEN Untouched(c, ok, t)
              @@ [entered |-> TRUE, raised |-> NoError,
                  ret |-> Dict("{\"result_count\": 0}")]
         ELSE Untouched(c, ok, t)
              @@ [entered |-> TRUE,
                  raised |-> ValueError("Postman collection not configured"),
                  ret |-> PNone]
    ELSE InvokeClient(name, ApiCall(c, ok, t, Endpoint(name), srv))

\* _dispatch_tool_call returning early, lines 154-156 and 167-169
EarlyResult(c, ok, t, result) ==
    Untouched(c, ok, t)
    @@ [calls |-> <<>>, escaped |-> NoError, parsed |-> EmptyDict, result |-> result,
        serialized |-> json_dumps(result)]

\* _dispatch_tool_call, lines 170-176: i is what the invocation did
AfterInvoke(name, parsed, i) ==
    [c |-> i.c, ok |-> i.ok, t |-> i.t, call |-> i.call,
     calls |-> IF i.entered
               THEN <<[name |-> name, args |-> parsed, raised |-> i.raised,
                       ret |-> i.ret]>>
               ELSE <<>>,
     parsed |-> parsed,
     escaped |-> IF i.raised # NoError /\ ~Caught(i.raised) THEN i.raised ELSE NoError,
     result |-> IF i.raised = NoError THEN ValueResult(i.ret)
                ELSE IF Caught(i.raised) THEN ErrorResult(ExcStr(i.raised))
                ELSE ErrorResult(NoMsg),
     serialized |-> IF i.raised = NoError THEN json_dumps(ValueResult(i.ret))
                    ELSE IF Caught(i.raised) THEN json_dumps(ErrorResult(ExcStr(i.raised)))
                    ELSE json_dumps(ErrorResult(NoMsg))]

\* a dispatch that does not catch JSONDecodeError
DispatchParsed_uncaught(name, p, c, ok, t, srv, hasIndex) ==
    IF p.raised
    THEN [EarlyResult(c, ok, t, ErrorResult(NoMsg))
             EXCEPT !.escaped = [cls |-> "JSONDecodeError", what |-> "Expecting value",
                                 subject |-> name, status |-> 0, text |-> ""]]
    ELSE AfterInvoke(name, p.val, Invoke(name, p.val, c, ok, t, srv, hasIndex))

\* _dispatch_tool_call, lines 157-176: p is what parsing the arguments gave
DispatchParsed(name, p, c, ok, t, srv, hasIndex) ==
    IF p.raised
    THEN EarlyResult(c, ok, t,
                     ErrorResult([what |-> "Invalid arguments for", subject |-> name,
                                  status |-> 0, text |-> ""]))
    ELSE AfterInvoke(name, p.val, Invoke(name, p.val, c, ok, t, srv, hasIndex))

\* a dispatch that looks the name up without testing for it
_dispatch_tool_call_unchecked(name, arguments, c, ok, t, srv, hasIndex) ==
    IF name \notin Registry
    THEN [EarlyResult(c, ok, t, ErrorResult(NoMsg))
             EXCEPT !.escaped = [cls |-> "KeyError", what |-> "", subject |-> name,
                                 status |-> 0, text |-> ""]]
    ELSE DispatchParsed(name, ParseArguments(arguments), c, ok, t, srv, hasIndex)

\* _dispatch_tool_call(name, arguments): (parsed_args, result_obj, serialized),
\* with the client state it leaves and the exception that escapes it, if any
_dispatch_tool_call(name, arguments, c, ok, t, srv, hasIndex) ==
    IF name \notin Registry
    THEN EarlyResult(c, ok, t,
                     ErrorResult([what |-> "Unknown tool", subject |-> name, status |-> 0, text |-> ""]))
    ELSE DispatchParsed(name, ParseArguments(arguments), c, ok, t, srv, hasIndex)

-----------------------------------------------------------------------------
(* Conversation messages *)

Text(s) == [kind |-> "str", s |-> s]

SystemMessage(content) ==
    [type |-> "system", content |-> content, tool_call_id |-> None, name |-> None,
     tool_calls |-> <<>>, legacy |-> <<>>]
HumanMessage(content) ==
    [type |-> "human", content |-> content, tool_call_id |-> None, name |-> None,
     tool_calls |-> <<>>, legacy |-> <<>>]
AIMessage(content, tool_calls, legacy) ==
    [type |-> "ai", content |-> content, tool_call_id |-> None, name |-> None,
     tool_calls |-> tool_calls, legacy |-> legacy]
\* a tool message that goes into the conversation under the assistant's role
ToolMessage_as_ai(content, tool_call_id, name) ==
    [type |-> "ai", content |-> content, tool_call_id |-> tool_call_id, name |-> name,
     tool_calls |-> <<>>, legacy |-> <<>>]

ToolMessage(content, tool_call_id, name) ==
    [type |-> "tool", content |-> content, tool_call_id |-> tool_call_id, name |-> name,
     tool_calls |-> <<>>, legacy |-> <<>>]

ToolCallRecord(tool_name, arguments, endpoint, result) ==
    [tool_name |-> tool_name, arguments |-> arguments, endpoint |-> endpoint,
     result |-> result]

\* entry.get(key, default) on an entry of a conversation
Get(entry, key, default) == IF key \in DOMAIN entry THEN entry[key] ELSE default

\* _convert_history(conversation); uuid is what str(uuid4()) gives
RECURSIVE _convert_history(_, _)
_convert_history(conversation, uuid) ==
    IF conversation = <<>> THEN <<>>
    ELSE LET entry == Head(conversation)
             rest == _convert_history(Tail(conversation), uuid)
             role == Get(entry, "role", None)
             content == Get(entry, "content", Text(""))
         IN CASE role = "system" -> <<SystemMessage(content)>> \o rest
              [] role = "user" -> <<HumanMessage(content)>> \o rest
              [] role = "assistant" -> <<AIMessage(content, <<>>, <<>>)>> \o rest
              [] role = "tool" ->
                    <<ToolMessage(content,
                                  IF Truthy(Get(entry, "tool_call_id", None))
                                  THEN entry.tool_call_id ELSE uuid,
                                  Get(entry, "name", None))>> \o rest
              [] OTHER -> rest

\* _serialize_messages(messages): one entry of the list
SerializedEntry(message) ==
    CASE message.type = "tool" /\ Truthy(message.name) ->
            [type |-> message.type, content |-> message.content,
             tool_call_id |-> message.tool_call_id, name |-> message.name]
      [] message.type = "tool" ->
            [type |-> message.type, content |-> message.content,
             tool_call_id |-> message.tool_call_id]
      [] message.type = "ai" /\ message.legacy # <<>> ->
            [type |-> message.type, content |-> message.content,
             tool_calls |-> message.legacy,
             additional_kwargs |-> [tool_calls |-> message.legacy]]
      [] OTHER -> [type |-> message.type, content |-> message.content]

_serialize_messages(msgs) == [k \in 1..Len(msgs) |-> SerializedEntry(msgs[k])]

-----------------------------------------------------------------------------
(* PostmanCollectionIndex.search_endpoints.  A text is a sequence of
   characters, so that lower(), split() and count() do what str does. *)

\* None where a text may stand
NoText == <<"<None>">>

\* str.lower() and str.upper() on the characters and method names in use
LowerChar(ch) ==
    CASE ch = "R" -> "r" [] ch = "W" -> "w" [] ch = "X" -> "x" [] OTHER -> ch
Lower(text) == [k \in 1..Len(text) |-> LowerChar(text[k])]
Upper(method) == CASE method = "get" -> "GET" [] method = "post" -> "POST" [] OTHER -> method

\* str.count(term): occurrences that do not overlap, from position k on
RECURSIVE CountFrom(_, _, _)
CountFrom(text, term, k) ==
    IF k + Len(term) - 1 > Len(text) THEN 0
    ELSE IF SubSeq(text, k, k + Len(term) - 1) = term
    THEN 1 + CountFrom(text, term, k + Len(term))
    ELSE CountFrom(text, term, k + 1)
Count(text, term) == CountFrom(text, term, 1)

\* str.strip() of a text is empty
IsBlank(text) == \A k \in 1..Len(text) : text[k] = " "

\* str.split(): the words between runs of blanks; word is the one being read
RECURSIVE SplitFrom(_, _, _)
SplitFrom(text, k, word) ==
    IF k > Len(text) THEN (IF word = <<>> THEN <<>> ELSE <<word>>)
    ELSE IF text[k] = " "
    THEN (IF word = <<>> THEN <<>> ELSE <<word>>) \o SplitFrom(text, k + 1, <<>>)
    ELSE SplitFrom(text, k + 1, Append(word, text[k]))
Split(text) == SplitFrom(text, 1, <<>>)

\* " ".join(parts)
RECURSIVE Join(_)
Join(parts) ==
    IF parts = <<>> THEN <<>>
    ELSE IF Len(parts) = 1 THEN parts[1]
    ELSE parts[1] \o <<" ">> \o Join(Tail(parts))

\* self._endpoints once the collection is loaded
PostmanEndpoint(name, method, path, description, folders) ==
    [name |-> name, method |-> method, path |-> path, description |-> description,
     folders |-> folders]
Endpoints ==
    << PostmanEndpoint(<<"r", "o", "i">>, "GET", <<"/", "r">>, NoText, << <<"W">> >>),
       PostmanEndpoint(<<"p">>, "POST", <<"/", "p">>, <<"r", "o", "i", " ", "r", "o", "i">>,
                       << <<"W">>, <<"x">> >>),
       PostmanEndpoint(<<"p">>, "GET", <<"/", "p">>, NoText, <<>>),
       PostmanEndpoint(<<"R", "o", "i">>, "GET", <<"/", "q">>, NoText, << <<"x">> >>) >>

\* the text the terms are looked up in: name, path, description and folders
\* joined by blanks, empty parts left out, in lower case
Haystack(endpoint) ==
    Lower(Join(SelectSeq(<< endpoint.name, endpoint.path,
                            IF endpoint.description = NoText THEN <<>>
                            ELSE endpoint.description,
                            Join(endpoint.folders) >>,
                         LAMBDA part : part # <<>>)))

\* the score of an endpoint: two for every occurrence of a term, one off for
\* every term that does not occur
RECURSIVE Score(_, _)
Score(endpoint, terms) ==
    IF terms = <<>> THEN 0
    ELSE (IF Count(Haystack(endpoint), Head(terms)) > 0
          THEN 2 * Count(Haystack(endpoint), Head(terms))
          ELSE 0 - 1)
         + Score(endpoint, Tail(terms))

\* the method and folder filters of the loop
PassesFilters(endpoint, method_filter, folder_filter) ==
    /\ method_filter # None => endpoint.method = method_filter
    /\ folder_filter # NoText =>
          \E f \in 1..Len(endpoint.folders) :
              Count(Lower(endpoint.folders[f]), folder_filter) > 0

\* list.sort(key=score, reverse=True): stable, the higher score first
RECURSIVE InsertByScore(_, _)
InsertByScore(sorted, item) ==
    IF sorted = <<>> THEN <<item>>
    ELSE IF Head(sorted).score >= item.score
    THEN <<Head(sorted)>> \o InsertByScore(Tail(sorted), item)
    ELSE <<item>> \o sorted
RECURSIVE SortByScore(_)
SortByScore(scored) ==
    IF scored = <<>> THEN <<>>
    ELSE InsertByScore(SortByScore(SubSeq(scored, 1, Len(scored) - 1)),
                       scored[Len(scored)])

\* the loop over self._endpoints: the list `scored`
Scored(terms, method_filter, folder_filter) ==
    LET kept == SelectSeq(Endpoints,
                          LAMBDA e : PassesFilters(e, method_filter, folder_filter))
    IN [k \in 1..Len(kept) |-> [score |-> Score(kept[k], terms), endpoint |-> kept[k]]]

\* scored[:limit]
Prefix(seq, n) == SubSeq(seq, 1, IF n < Len(seq) THEN n ELSE Len(seq))

NoSearch(query, limit, method, folder_contains) ==
    [op |-> "search_endpoints", events |-> <<>>, raised |-> NoError, query |-> query,
     limit |-> limit, method |-> method, folder_contains |-> folder_contains,
     loaded |-> FALSE, result_count |-> 0, results |-> <<>>]

\* search_endpoints(query, limit=, method=, folder_contains=); exists is
\* whether the collection file is there to be loaded
search_endpoints(query, limit, method, folder_contains, exists) ==
    IF query = NoText \/ query = <<>> \/ IsBlank(query)
    THEN [NoSearch(query, limit, method, folder_contains) EXCEPT
            !.raised = ValueError("query must be a non-empty string")]
    ELSE IF limit <= 0
    THEN [NoSearch(query, limit, method, folder_contains) EXCEPT
            !.raised = ValueError("limit must be > 0")]
    ELSE IF ~exists
    THEN [NoSearch(query, limit, method, folder_contains) EXCEPT
            !.raised = [cls |-> "FileNotFoundError", what |-> "Postman collection not found",
                        subject |-> "", status |-> 0, text |-> ""]]
    ELSE LET matches == Prefix(SortByScore(Scored(
                            Split(Lower(query)),
                            IF Truthy(method) THEN Upper(method) ELSE None,
                            IF folder_contains # NoText /\ folder_contains # <<>>
                            THEN Lower(folder_contains) ELSE NoText)), limit)
         IN [NoSearch(query, limit, method, folder_contains) EXCEPT
               !.loaded = TRUE,
               !.result_count = Len(matches),
               !.results = [k \in 1..Len(matches) |-> matches[k].endpoint]]

\* the inputs of a search
Queries ==
    { NoText, <<" ", " ">>, <<"r", "o", "i">>, <<"R", "O", "I", " ", " ", "p">>,
      <<"z", "z">>, <<"r", "o", "i", " ", "z", "z">> }
FolderFilters == {NoText, <<"w">>, <<"X">>}

-----------------------------------------------------------------------------
(* Inputs *)

ClientOps == {"POST /api/v2/report/property-summary"}

\* what the server answers while the agent runs
AgentLogins ==
    { [status |-> 200, json |-> TRUE,
       payload |-> [kv |-> ("token" :> PStr("tA")), model |-> NoModel]],
      [status |-> 401, json |-> TRUE, payload |-> [kv |-> EmptyKv, model |-> NoModel]] }
AgentResponses ==
    { [status |-> 200, json |-> TRUE], [status |-> 200, json |-> FALSE],
      [status |-> 401, json |-> TRUE] }

Histories ==
    { <<>>,
      << [role |-> "assistant", content |-> Text("earlier answer"), tool_call_id |-> None,
          name |-> None],
         [role |-> "tool", content |-> Text("{}"), tool_call_id |-> None,
          name |-> "get_property"] >> }

CallGetProperty == LegacyCall("c1", "get_property", Str("{\"property_id\": 3}"))
CallGetPropertyNormalized == ToolCall("c1", "get_property", ArgsProperty3)
CallGetPropertyFlat == FlatCall("c2", "get_property", ArgsProperty3)
CallUnknown == LegacyCall("c3", "delete_property", Str("{}"))
CallMalformed == LegacyCall("c4", "get_property", Str("{not json"))
CallNameless == LegacyCall("c5", None, Str("{}"))
CallListArgs == LegacyCall("c6", "get_property", Str("[1]"))
CallSearch == LegacyCall("c7", "search_postman_endpoints", Str("{\"query\": \"water\"}"))
CallWrongKey == ObjectCall("c8", "get_property", Str("{\"id\": 3}"))
CallNoId == LegacyCall(None, "list_property_groups", PNone)
CallSameId == LegacyCall("c1", "list_water_roi", Str("{\"property_id\": 3}"))

\* the messages the model may answer with
AiMessages ==
    { AIMessage(Text("Hotel X is fine."), <<>>, <<>>),
      AIMessage(Text("  "), <<>>, <<>>),
      AIMessage([kind |-> "list", part |-> [type |-> "text", text |-> "Done."]], <<>>, <<>>),
      AIMessage(Text(""), <<CallGetPropertyNormalized>>, <<CallGetProperty>>),
      AIMessage(Text(""), <<>>, <<CallGetProperty>>),
      AIMessage(Text(""), <<CallGetPropertyFlat>>, <<>>),
      AIMessage(Text(""), <<>>, <<CallUnknown>>),
      AIMessage(Text(""), <<>>, <<CallMalformed>>),
      AIMessage(Text(""), <<>>, <<CallNameless>>),
      AIMessage(Text(""), <<>>, <<CallListArgs>>),
      AIMessage(Text(""), <<>>, <<CallSearch>>),
      AIMessage(Text(""), <<>>, <<CallWrongKey>>),
      AIMessage(Text("Looking it up."), <<>>, <<CallNoId, CallUnknown>>),
      AIMessage(Text(""), <<>>, <<CallNameless, CallMalformed>>),
      AIMessage(Text(""), <<>>, <<CallGetProperty, CallSameId, CallUnknown>>) }

-----------------------------------------------------------------------------
(* run_agent.py: run_requirements_workflow *)

\* str.strip() and str.lower() on the group names and filters in use
StripName(name) == IF name = " Energy ROI " THEN "Energy ROI" ELSE name
LowerName(name) ==
    CASE name = "Water" -> "water" [] name = "Energy ROI" -> "energy roi" [] OTHER -> name

\* slugify(value): lower case, "-" for what is not alphanumeric, no "-" at the
\* ends, "group" if nothing is left
slugify(value) ==
    CASE value = "Water" -> "water"
      [] value = "Energy ROI" -> "energy-roi"
      [] value = "" -> "group"
      [] OTHER -> value

\* the requirements files: groups named "Water" and "Energy ROI" and one
\* without a name.  A property group id is written as its decimal numeral.
Requirements ==
    LET Water == [name |-> "Water", metrics |-> <<>>]
        Energy == [name |-> "Energy ROI", metrics |-> <<>>]
        Unnamed == [metrics |-> <<>>]
    IN { [property_group_id_default |-> d, groups |-> g] :
           d \in {None, "3"},
           g \in { <<>>, <<Water>>, <<Water, Energy>>, <<Water, Unnamed, Water>> } }

\* how agent.run(prompt) can end: a reply with the log of its tool calls, the
\* budget error, an exception out of the loop
RunOutcomes ==
    { [kind |-> "reply", reply |-> "Done.", error |-> NoError,
       tool_calls |-> <<ToolCallRecord("get_property", ArgsProperty3,
                                       describe_endpoint("get_property", ArgsProperty3),
                                       ValueResult(BodyOf(Endpoint("get_property"))))>>],
      [kind |-> "reply", reply |-> "Hotel X is fine.", error |-> NoError,
       tool_calls |-> <<>>],
      [kind |-> "raised", reply |-> "",
       error |-> [cls |-> "RuntimeError", what |-> "Agent reached max turns",
                  subject |-> "", status |-> 0, text |-> ""],
       tool_calls |-> <<>>],
      [kind |-> "raised", reply |-> "",
       error |-> [cls |-> "AttributeError", what |-> "describe_endpoint",
                  subject |-> "get_property", status |-> 0, text |-> ""],
       tool_calls |-> <<>>] }

NoWorkflow ==
    [status |-> "idle", groups |-> <<>>, property_group_id |-> None, idx |-> 0,
     written_files |-> <<>>, output_dir |-> {}, runs |-> <<>>, raised |-> NoError]

\* lines 207-230: the workflow up to its loop
WorkflowStart(requirements, property_group_id, group_name_filters) ==
    LET resolved_group_id == IF property_group_id \notin {None, "0"} THEN property_group_id
                             ELSE requirements.property_group_id_default
        groups == requirements.groups
        normalized_filters == { LowerName(StripName(group_name_filters[k])) :
                                  k \in 1..Len(group_name_filters) }
        filtered_groups ==
            IF group_name_filters = <<>> THEN groups
            ELSE SelectSeq(groups,
                           LAMBDA group : LowerName(Get(group, "name", "")) \in normalized_filters)
    IN IF resolved_group_id = None
       THEN [NoWorkflow EXCEPT !.status = "failed",
                               !.raised = ValueError("A property group ID must be provided")]
       ELSE IF groups = <<>>
       THEN [NoWorkflow EXCEPT !.status = "failed",
                               !.raised = ValueError("Requirements file does not define any groups")]
       ELSE IF filtered_groups = <<>>
       THEN [NoWorkflow EXCEPT !.status = "failed",
                               !.raised = ValueError("No requirement groups matched")]
       ELSE [NoWorkflow EXCEPT !.status = "running", !.groups = filtered_groups,
                               !.property_group_id = resolved_group_id, !.idx = 1]

\* lines 233-246: the AgentRunResult the loop goes on with
ResultOfRun(group, run) ==
    IF run.kind = "raised"
    THEN [reply |-> [kind |-> "failure", name |-> Get(group, "name", None),
                     exc |-> ExcStr(run.error)],
          tool_calls |-> <<>>]
    ELSE [reply |-> [kind |-> "reply", s |-> run.reply], tool_calls |-> run.tool_calls]

\* write_group_result: the file, its name made of index and slug
write_group_result(group, property_group_id, result, index) ==
    [path |-> <<index, slugify(Get(group, "name", "group-{index}"))>>,
     payload |-> [group_order |-> index,
                  group_name |-> Get(group, "name", None),
                  property_group_id |-> property_group_id,
                  agent_summary |-> result.reply,
                  fetches |-> [k \in 1..Len(result.tool_calls) |->
                                 [order |-> k,
                                  tool_name |-> result.tool_calls[k].tool_name]],
                  tool_calls |-> result.tool_calls]]

\* a file written into the output directory replaces the one of its name
WriteFile(dir, file) == { f \in dir : f.path # file.path } \cup {file}

\* a loop that gives up at the first run that fails
GroupStep_stopping(w, run) ==
    IF run.kind = "raised"
    THEN [w EXCEPT !.status = "failed", !.raised = run.error, !.runs = Append(@, run)]
    ELSE [w EXCEPT
            !.written_files =
                Append(@, write_group_result(w.groups[w.idx], w.property_group_id,
                                             ResultOfRun(w.groups[w.idx], run), w.idx).path),
            !.output_dir =
                WriteFile(@, write_group_result(w.groups[w.idx], w.property_group_id,
                                                ResultOfRun(w.groups[w.idx], run), w.idx)),
            !.runs = Append(@, run),
            !.idx = @ + 1,
            !.status = IF w.idx = Len(w.groups) THEN "done" ELSE "running"]

\* lines 231-255: one iteration of the loop over filtered_groups; run is how
\* agent.run ended
GroupStep(w, run) ==
    [w EXCEPT
       !.written_files =
           Append(@, write_group_result(w.groups[w.idx], w.property_group_id,
                                        ResultOfRun(w.groups[w.idx], run), w.idx).path),
       !.output_dir =
           WriteFile(@, write_group_result(w.groups[w.idx], w.property_group_id,
                                           ResultOfRun(w.groups[w.idx], run), w.idx)),
       !.runs = Append(@, run),
       !.idx = @ + 1,
       !.status = IF w.idx = Len(w.groups) THEN "done" ELSE "running"]

-----------------------------------------------------------------------------
(* Two threads in _request on one client.  A thread is
   [pc, force, login, token, first, rets, sent]: where it stands, the force
   argument of its _ensure_token, what its _login returned, its local token,
   whether its first send is still to come, what its _ensure_token calls
   returned and what it sent. *)

Threads == {1, 2}

\* a thread that has not called _request yet
NoThreads ==
    [t \in Threads |-> [pc |-> "idle", force |-> FALSE, login |-> None, token |-> None,
                        first |-> TRUE, rets |-> <<>>, sent |-> <<>>]]

-----------------------------------------------------------------------------
(* State machine *)

NoOutcome == [kind |-> "running", reply |-> "", error |-> NoError]

\* SymmonsAPIClient.__post_init__ with SYM_API_JWT = env at time 0
ClientInit(env) ==
    /\ environ = env
    /\ now = 0
    /\ jwt = IF Truthy(env) THEN (IF Strip(env) = "" THEN None ELSE Strip(env)) ELSE None
    /\ acquired_at = 0
    /\ lastCall = NoCall
    /\ lastOk = NoOk

\* SymmonsAgent.__init__
AgentInit ==
    /\ pc = "idle"
    /\ messages = <<>>
    /\ tool_call_log = <<>>
    /\ turn = 0
    /\ pending = <<>>
    /\ idx = 0
    /\ invoked = <<>>
    /\ outcome = NoOutcome
    /\ base = 0
    /\ postman \in BOOLEAN

Init ==
    /\ \E env \in {None, "t0", "  "} : ClientInit(env)
    /\ AgentInit
    /\ workflow = NoWorkflow
    /\ threads = NoThreads

Client == [jwt |-> jwt, at |-> acquired_at, env |-> environ]

\* time.monotonic() advances
Tick ==
    /\ now < MaxTime
    /\ now' = now + 1
    /\ UNCHANGED <<jwt, acquired_at, environ, lastCall, lastOk>>
    /\ UNCHANGED <<agentVars, otherVars>>

\* a caller uses the client directly: _get / _post
ClientCall ==
    \E op \in ClientOps :
    \E srv \in ScriptsFrom(Client, now, LoginResponses, Responses, {0, 1}) :
    \E q \in {ApiCall(Client, lastOk, now, op, srv)} :
           /\ q.t <= MaxTime
           /\ jwt' = q.c.jwt
           /\ acquired_at' = q.c.at
           /\ environ' = q.c.env
           /\ now' = q.t
           /\ lastOk' = q.ok
           /\ lastCall' = [op |-> op, events |-> q.events, raised |-> q.raised]
           /\ UNCHANGED <<agentVars, otherVars>>

\* a caller asks for a token: _ensure_token(force)
EnsureToken ==
    \E force \in BOOLEAN :
    \E lr \in (IF force \/ ~Truthy(jwt) \/ _token_expired(Client, now)
               THEN LoginResponses ELSE {NoLogin}) :
    \E dur \in (IF lr = NoLogin THEN {0} ELSE {0, 1}) :
    \E e \in {_ensure_token(Client, force, lr, now, dur)} :
           /\ e.t <= MaxTime
           /\ jwt' = e.c.jwt
           /\ acquired_at' = e.c.at
           /\ environ' = e.c.env
           /\ now' = e.t
           /\ lastOk' = OkAfter(lastOk, e)
           /\ lastCall' = [op |-> "_ensure_token",
                           events |-> <<EnsureEvent(force, now, lastOk, e)>>,
                           raised |-> e.raised]
           /\ UNCHANGED <<agentVars, otherVars>>

\* a caller applies the static method _extract_token to a payload
ExtractToken ==
    \E payload \in Payloads :
           /\ lastCall' = [op |-> "_extract_token", events |-> <<>>, raised |-> NoError,
                           payload |-> payload, token |-> _extract_token(payload)]
           /\ UNCHANGED <<jwt, acquired_at, environ, now, lastOk>>
           /\ UNCHANGED <<agentVars, otherVars>>

\* run(): lines 100-104
StartRun ==
    /\ pc = "idle"
    /\ \E conversation \in Histories :
          messages' = <<SystemMessage(Text("system prompt"))>>
                      \o _convert_history(conversation, "uuid-1")
                      \o <<HumanMessage(Text("user prompt"))>>
    /\ base' = Len(messages')
    /\ tool_call_log' = <<>>
    /\ turn' = 0
    /\ pending' = <<>>
    /\ idx' = 0
    /\ invoked' = <<>>
    /\ outcome' = NoOutcome
    /\ pc' = "loop"
    /\ UNCHANGED <<postman, otherVars>>
    /\ UNCHANGED clientVars

HasTurn_one_more(n) == n <= MaxTurns

\* whether the for loop of run() has another iteration
HasTurn(n) == n < MaxTurns

\* run(): lines 106-110 and 139-145, one model invocation
InvokeModel ==
    /\ pc = "loop"
    /\ HasTurn(turn)
    /\ \E ai_message \in AiMessages :
          LET tool_calls == _extract_tool_calls(ai_message)
              text_reply == _normalize_response_content(ai_message)
          IN /\ messages' = Append(messages, ai_message)
             /\ turn' = turn + 1
             /\ IF tool_calls # <<>>
                THEN /\ pending' = tool_calls
                     /\ idx' = 1
                     /\ pc' = "dispatch"
                     /\ outcome' = outcome
                ELSE /\ pending' = <<>>
                     /\ idx' = 0
                     /\ IF text_reply # ""
                        THEN /\ pc' = "returned"
                             /\ outcome' = [kind |-> "reply", reply |-> text_reply,
                                            error |-> NoError]
                        ELSE /\ pc' = "loop"
                             /\ outcome' = outcome
    /\ UNCHANGED <<tool_call_log, invoked, base, postman, otherVars>>
    /\ UNCHANGED clientVars

\* run(): line 147
BudgetExceeded ==
    /\ pc = "loop"
    /\ ~HasTurn(turn)
    /\ pc' = "failed"
    /\ outcome' = [kind |-> "raised", reply |-> "",
                   error |-> [cls |-> "RuntimeError", what |-> "Agent reached max turns",
                              subject |-> "", status |-> 0, text |-> ""]]
    /\ UNCHANGED <<messages, tool_call_log, turn, pending, idx, invoked, base, postman, otherVars>>
    /\ UNCHANGED clientVars

\* run(): lines 111-138, one iteration of the inner for loop
DispatchCall ==
    /\ pc = "dispatch"
    /\ idx <= Len(pending)
    /\ LET call == pending[idx]
           tool_name == call.function.name
           arguments == PyOr(call.function.arguments, PNone)
           more == IF idx < Len(pending) THEN "dispatch" ELSE "loop"
       IN IF ~Truthy(tool_name)
          THEN /\ idx' = idx + 1
               /\ pc' = more
               /\ UNCHANGED <<messages, tool_call_log, invoked, outcome>>
               /\ UNCHANGED clientVars
          ELSE \E srv \in (IF ReachesClient(tool_name, arguments)
                           THEN ScriptsFrom(Client, now, AgentLogins, AgentResponses, {0})
                           ELSE {NoScript}) :
               \E d \in {_dispatch_tool_call(tool_name, arguments, Client, lastOk, now,
                                            srv, postman)} :
               LET raises == IF d.escaped # NoError THEN d.escaped
                             ELSE IF describe_endpoint_raises(tool_name, d.parsed)
                             THEN [cls |-> "AttributeError", what |-> "describe_endpoint",
                                   subject |-> tool_name, status |-> 0, text |-> ""]
                             ELSE NoError
               IN /\ jwt' = d.c.jwt
                  /\ acquired_at' = d.c.at
                  /\ environ' = d.c.env
                  /\ now' = d.t
                  /\ lastOk' = d.ok
                  /\ lastCall' = IF d.call = NoCall THEN lastCall ELSE d.call
                  /\ invoked' = invoked \o d.calls
                  /\ IF raises # NoError
                     THEN /\ pc' = "failed"
                          /\ outcome' = [kind |-> "raised", reply |-> "", error |-> raises]
                          /\ UNCHANGED <<messages, tool_call_log, idx>>
                     ELSE /\ tool_call_log' =
                                Append(tool_call_log,
                                       ToolCallRecord(tool_name, d.parsed,
                                                      describe_endpoint(tool_name, d.parsed),
                                                      d.result))
                          /\ messages' = Append(messages,
                                                ToolMessage(d.serialized, call.id, tool_name))
                          /\ idx' = idx + 1
                          /\ pc' = more
                          /\ outcome' = outcome
    /\ UNCHANGED <<turn, pending, base, postman, otherVars>>

\* a caller searches the index of the Postman collection
SearchEndpoints ==
    \E query \in Queries, limit \in {0, 1, 2, 5}, method \in {None, "get", "POST"},
       folder_contains \in FolderFilters, exists \in BOOLEAN :
           /\ lastCall' = search_endpoints(query, limit, method, folder_contains, exists)
           /\ UNCHANGED <<jwt, acquired_at, environ, now, lastOk>>
           /\ UNCHANGED <<agentVars, otherVars>>

\* run_requirements_workflow is called
StartWorkflow ==
    /\ workflow.status = "idle"
    /\ \E requirements \in Requirements, property_group_id \in {None, "0", "7"},
          group_name_filters \in {<<>>, <<"water">>, <<" Energy ROI ", "Water">>, <<"nope">>} :
             workflow' = WorkflowStart(requirements, property_group_id, group_name_filters)
    /\ UNCHANGED <<clientVars, agentVars, threads>>

\* the workflow runs the agent for its next group and writes the group's file
RunGroup ==
    /\ workflow.status = "running"
    /\ workflow.idx <= Len(workflow.groups)
    /\ \E run \in RunOutcomes : workflow' = GroupStep(workflow, run)
    /\ UNCHANGED <<clientVars, agentVars, threads>>

\* _request line 112 and _ensure_token line 143: the thread calls
\* _ensure_token() and evaluates its condition on the cache as it is now
Check(t) ==
    /\ threads[t].pc = "idle"
    /\ threads' = [threads EXCEPT
                     ![t].pc = IF Truthy(jwt) /\ ~_token_expired(Client, now)
                               THEN "return" ELSE "login"]
    /\ UNCHANGED <<clientVars, agentVars, workflow>>

\* _ensure_token line 145, right-hand side: self._login(), a login that
\* yields a token
Login(t) ==
    /\ threads[t].pc = "login"
    /\ \E token \in {"tA", "tB"} :
          threads' = [threads EXCEPT ![t].login = token, ![t].pc = "store"]
    /\ UNCHANGED <<clientVars, agentVars, workflow>>

\* _ensure_token lines 145-146: the token and the time go into the cache
Store(t) ==
    /\ threads[t].pc = "store"
    /\ jwt' = threads[t].login
    /\ acquired_at' = now
    /\ threads' = [threads EXCEPT ![t].pc = "mirror"]
    /\ UNCHANGED <<environ, now, lastCall, lastOk, agentVars, workflow>>

\* _ensure_token lines 147-148: the cache as it is now goes into the environment
Mirror(t) ==
    /\ threads[t].pc = "mirror"
    /\ environ' = IF Truthy(jwt) THEN jwt ELSE environ
    /\ threads' = [threads EXCEPT ![t].pc = "return"]
    /\ UNCHANGED <<jwt, acquired_at, now, lastCall, lastOk, agentVars, workflow>>

\* _ensure_token lines 144 and 149: return self._jwt, read from the cache as
\* it is now
Return(t) ==
    /\ threads[t].pc = "return"
    /\ threads' = [threads EXCEPT
                     ![t].token = jwt,
                     ![t].rets = Append(@, [force |-> threads[t].force, ret |-> jwt]),
                     ![t].pc = "send"]
    /\ UNCHANGED <<clientVars, agentVars, workflow>>

\* _request lines 114-122 and 127-135: the request goes out, under the header
\* line 114 builds for the first send and line 127 sets for the second, and
\* the server answers
Send(t) ==
    /\ threads[t].pc = "send"
    /\ \E status \in {200, 401} :
          threads' = [threads EXCEPT
                        ![t].sent = Append(@, [auth |-> IF threads[t].first
                                                           /\ ~Truthy(threads[t].token)
                                                        THEN NoAuth
                                                        ELSE Fmt(threads[t].token),
                                               status |-> status]),
                        ![t].first = FALSE,
                        ![t].pc = IF status = 401 /\ threads[t].first
                                  THEN "clear" ELSE "done"]
    /\ UNCHANGED <<clientVars, agentVars, workflow>>

\* _request lines 123-126: the cache is cleared and _ensure_token(force=True)
\* is called, which goes straight to its login
Clear(t) ==
    /\ threads[t].pc = "clear"
    /\ jwt' = None
    /\ acquired_at' = 0
    /\ threads' = [threads EXCEPT ![t].force = TRUE, ![t].pc = "login"]
    /\ UNCHANGED <<environ, now, lastCall, lastOk, agentVars, workflow>>

\* a step of one of the two threads
ThreadStep ==
    \E t \in Threads :
        Check(t) \/ Login(t) \/ Store(t) \/ Mirror(t) \/ Return(t) \/ Send(t) \/ Clear(t)

\* a later run() on the same agent, given the messages the run before returned
\* (AgentRunResult.messages) as its conversation: lines 100-104 and 139-145
ContinueRun ==
    /\ pc = "returned"
    /\ messages' = <<SystemMessage(Text("system prompt"))>>
                   \o _convert_history(_serialize_messages(messages), "uuid-1")
                   \o <<HumanMessage(Text("next user prompt"))>>
    /\ base' = Len(messages')
    /\ tool_call_log' = <<>>
    /\ turn' = 0
    /\ pending' = <<>>
    /\ idx' = 0
    /\ invoked' = <<>>
    /\ outcome' = NoOutcome
    /\ pc' = "loop"
    /\ UNCHANGED <<postman, otherVars>>
    /\ UNCHANGED clientVars

Next ==
    \/ Tick \/ ClientCall \/ EnsureToken \/ ExtractToken
    \/ StartRun \/ InvokeModel \/ BudgetExceeded \/ DispatchCall \/ ContinueRun
    \/ SearchEndpoints \/ StartWorkflow \/ RunGroup
    \/ ThreadStep

Spec == Init /\ [][Next]_vars

\* the client alone, used directly
ClientNext == Tick \/ ClientCall
ClientSpec == Init /\ [][ClientNext]_vars

\* the token alone: direct calls of _ensure_token and of _extract_token
TokenNext == Tick \/ EnsureToken \/ ExtractToken
TokenSpec == Init /\ [][TokenNext]_vars

\* the token cache under every operation that touches it: requests and direct
\* calls of _ensure_token
CacheNext == Tick \/ ClientCall \/ EnsureToken
CacheSpec == Init /\ [][CacheNext]_vars

\* one agent over its client, the clock standing still
AgentNext == StartRun \/ InvokeModel \/ BudgetExceeded \/ DispatchCall
AgentSpec == Init /\ [][AgentNext]_vars

\* the index of the Postman collection alone
SearchSpec == Init /\ [][SearchEndpoints]_vars

\* the requirements workflow alone
WorkflowSpec == Init /\ [][StartWorkflow \/ RunGroup]_vars

\* two requests at once on one client, time passing
RaceSpec == Init /\ [][Tick \/ ThreadStep]_vars

\* runs that continue the conversation of the run before
ContinueSpec == Init /\ [][AgentNext \/ ContinueRun]_vars

-----------------------------------------------------------------------------
(* Properties of the client *)

Sends(call) == SelectSeq(call.events, LAMBDA e : e.ev = "send")
Ensures(call) == SelectSeq(call.events, LAMBDA e : e.ev = "ensure")
Forced(call) == SelectSeq(call.events, LAMBDA e : e.ev = "ensure" /\ e.force)
Last(seq) == seq[Len(seq)]

\* C1 as stated: a request whose first response is 401 makes exactly one
\* forced login and exactly one re-send with the token that login obtained, a
\* second 401 ends the call with an API error; a request whose first response
\* is not 401 is sent exactly once.
C1_RetryAlwaysResends ==
    LET sends == Sends(lastCall)
        forced == Forced(lastCall)
    IN sends # <<>> =>
          IF sends[1].status = 401
          THEN /\ Len(forced) = 1
               /\ Len(sends) = 2
               /\ sends[2].op = sends[1].op
               /\ sends[2].auth = Fmt(forced[1].ret)
               /\ sends[2].status = 401 =>
                     lastCall.raised = StatusError("failed with", lastCall.op, Unauthorized)
          ELSE Len(sends) = 1 /\ forced = <<>>

\* C1 amended: after a first 401 there is exactly one forced login; if it
\* raises, the call fails with its error and nothing is re-sent; otherwise the
\* same request is re-sent exactly once under the value that login returned,
\* and a second 401 ends the call with an API error. A request whose first
\* response is not 401 is sent exactly once.
C1_RetryOnce ==
    LET sends == Sends(lastCall)
        forced == Forced(lastCall)
    IN sends # <<>> =>
          IF sends[1].status = 401
          THEN /\ Len(forced) = 1
               /\ forced[1].login
               /\ Len(Ensures(lastCall)) = 2
               /\ IF forced[1].raised
                  THEN /\ Len(sends) = 1
                       /\ lastCall.raised.what \in {"Login failed with",
                                                    "Invalid JSON response from"}
                       /\ Last(lastCall.events) = forced[1]
                  ELSE /\ Len(sends) = 2
                       /\ Last(lastCall.events) = sends[2]
                       /\ sends[2].op = sends[1].op
                       /\ sends[2].op = lastCall.op
                       /\ sends[2].auth = Fmt(forced[1].ret)
                       /\ sends[2].auth = Fmt(jwt)
                       /\ sends[2].status = 401 =>
                             lastCall.raised = StatusError("failed with", lastCall.op, Unauthorized)
          ELSE Len(sends) = 1 /\ forced = <<>> /\ Len(Ensures(lastCall)) = 1

\* a request was answered 401 twice
C1_Witness ==
    /\ Len(Sends(lastCall)) = 2
    /\ Sends(lastCall)[1].status = 401
    /\ Sends(lastCall)[2].status = 401
    /\ lastCall.raised # NoError

\* C2 as stated: once _ensure_token has logged in and got a token at time t,
\* every later _ensure_token() at a time now with now - t <= token_ttl_seconds
\* returns that token without a login, and one with now - t > token_ttl_seconds
\* logs in.
C2_TtlAlone ==
    lastCall.events # <<>> =>
        LET e == lastCall.events[1]
        IN e.ok.valid =>
              /\ e.t - e.ok.t <= TokenTtl => ~e.login /\ e.ret = e.ok.tok
              /\ e.t - e.ok.t > TokenTtl => e.login

\* C2 amended: the same, provided no 401 response has cleared the cached token
\* since that login.
C2_TtlUnlessCleared ==
    lastCall.events # <<>> =>
        LET e == lastCall.events[1]
        IN e.ok.valid =>
              /\ (~e.ok.cleared /\ e.t - e.ok.t <= TokenTtl) =>
                    ~e.login /\ e.ret = e.ok.tok
              /\ e.t - e.ok.t > TokenTtl => e.login

\* a token reused at the very end of its time to live
C2_Witness ==
    /\ lastCall.events # <<>>
    /\ lastCall.events[1].ok.valid
    /\ ~lastCall.events[1].ok.cleared
    /\ lastCall.events[1].t - lastCall.events[1].ok.t = TokenTtl
    /\ ~lastCall.events[1].login
    /\ lastCall.events[1].ret = lastCall.events[1].ok.tok

\* C3 as stated: a login whose response holds no token fails, so
\* _ensure_token never returns or stores a null token and no resource request
\* is sent after such a login.
C3_LoginWithoutTokenFails ==
    \A i \in 1..Len(lastCall.events) :
        LET e == lastCall.events[i]
        IN (e.ev = "ensure" /\ e.login /\ ~e.raised) =>
              /\ e.ret # None
              /\ i = Len(lastCall.events) => jwt # None

-----------------------------------------------------------------------------
(* Properties of the tool-calling loop *)

\* the inner for loop of run() is about to handle pending[idx]
Dispatching == pc = "dispatch" /\ idx <= Len(pending)
CurrentName == pending[idx].function.name
CurrentArguments == PyOr(pending[idx].function.arguments, PNone)

\* the messages run() appended after the prompt
LoopMessages == { k \in 1..Len(messages) : k > base }
AiIndexes == { k \in LoopMessages : messages[k].type = "ai" }
ToolIndexes == { k \in LoopMessages : messages[k].type = "tool" }

\* every model turn of the run so far emitted a tool call
AlwaysToolCalls ==
    \A k \in AiIndexes : messages[k].tool_calls \o messages[k].legacy # <<>>

BudgetError ==
    [cls |-> "RuntimeError", what |-> "Agent reached max turns", subject |-> "",
     status |-> 0, text |-> ""]

\* C4 as stated: the model is never invoked more than max_turns times, and a
\* run whose model emitted a tool call on every turn ends only after exactly
\* max_turns invocations, with the budget error.
C4_BudgetExactlyN ==
    /\ turn <= MaxTurns
    /\ Cardinality(AiIndexes) = turn
    /\ (pc \in {"failed", "returned"} /\ AlwaysToolCalls) =>
          turn = MaxTurns /\ outcome.error = BudgetError

UnknownToolResult(name) ==
    ErrorResult([what |-> "Unknown tool", subject |-> name, status |-> 0, text |-> ""])

\* the step of the inner loop kept the run going
LoopGoesOn ==
    /\ pc' = (IF idx < Len(pending) THEN "dispatch" ELSE "loop")
    /\ idx' = idx + 1
    /\ outcome' = outcome
    /\ turn' = turn

\* C5: dispatching a call to a name outside the registry appends the tool
\* message {"error": "Unknown tool '<name>'"} under the call's id and records
\* it, invokes no callable, leaves the client alone and does not end the run;
\* after the last call of the turn the loop is back at its head, where a model
\* invocation is the step taken whenever the budget is not used up.
C5_UnknownToolContinues ==
    /\ [][(Dispatching /\ Truthy(CurrentName) /\ CurrentName \notin Registry) =>
            /\ messages' = Append(messages,
                                  ToolMessage(json_dumps(UnknownToolResult(CurrentName)),
                                              pending[idx].id, CurrentName))
            /\ tool_call_log' = Append(tool_call_log,
                                       ToolCallRecord(CurrentName, EmptyDict,
                                                      <<None, "">>,
                                                      UnknownToolResult(CurrentName)))
            /\ invoked' = invoked
            /\ UNCHANGED clientVars
            /\ LoopGoesOn]_vars
    /\ []((pc = "loop" /\ turn < MaxTurns) => (ENABLED InvokeModel /\ ~ENABLED BudgetExceeded))

\* an unknown tool was answered and the model is about to be invoked again
C5_Witness ==
    /\ pc = "loop"
    /\ turn < MaxTurns
    /\ Last(messages).type = "tool"
    /\ Last(messages).content = json_dumps(UnknownToolResult("delete_property"))
    /\ Last(tool_call_log).tool_name = "delete_property"

InvalidArgumentsResult(name) ==
    ErrorResult([what |-> "Invalid arguments for", subject |-> name, status |-> 0, text |-> ""])

\* C6: dispatching a call to a registered tool whose arguments are a string
\* that is no JSON text appends the tool message
\* {"error": "Invalid arguments for <name>: ..."}, invokes no callable, and the
\* loop goes on: no exception leaves run().
C6_MalformedArgumentsContinue ==
    [][(/\ Dispatching
        /\ CurrentName \in Registry
        /\ CurrentArguments.ty = "str"
        /\ CurrentArguments.s \notin DOMAIN JsonTypes) =>
            /\ messages' = Append(messages,
                                  ToolMessage(json_dumps(InvalidArgumentsResult(CurrentName)),
                                              pending[idx].id, CurrentName))
            /\ Last(tool_call_log').result.msg.subject = CurrentName
            /\ Len(tool_call_log') = Len(tool_call_log) + 1
            /\ invoked' = invoked
            /\ UNCHANGED clientVars
            /\ LoopGoesOn]_vars

\* malformed arguments were answered and the loop is back at its head
C6_Witness ==
    /\ pc = "loop"
    /\ Last(messages).type = "tool"
    /\ Last(messages).content = json_dumps(InvalidArgumentsResult("get_property"))
    /\ Last(messages).tool_call_id = "c4"
    /\ invoked = <<>>

\* the call of the last model message that pending[idx] was extracted from
RawCalls == Last(messages).tool_calls \o Last(messages).legacy
RawOf(entry) ==
    RawCalls[CHOOSE i \in 1..Len(RawCalls) :
                /\ Entry(RawCalls[i]) = entry
                /\ \A j \in 1..(i - 1) : Entry(RawCalls[j]) # entry]

\* the arguments a call was emitted with, whichever key carries them
EmittedArguments(raw) ==
    LET carried == IF raw.function.kind # "none" THEN raw.function.arguments
                   ELSE IF raw.args # PNone THEN raw.args
                   ELSE raw.arguments
    IN IF carried.ty = "str" /\ carried.s \in DOMAIN JsonTypes
       THEN json_loads(carried.s).val
       ELSE carried

\* C7 as stated: a call naming a registered tool with arguments A, in
\* whichever shape the model message carries it, invokes the callable with
\* exactly A and is recorded with the emitted name, A and the callable's return
\* value, which is also what the tool message's content decodes to.
C7_DispatchEndToEnd ==
    [][(/\ Dispatching
        /\ Truthy(CurrentName)
        /\ CurrentName \in Registry
        /\ EmittedArguments(RawOf(pending[idx])).ty = "dict"
        /\ Binds(CurrentName, EmittedArguments(RawOf(pending[idx])))) =>
            /\ Len(invoked') = Len(invoked) + 1
            /\ Last(invoked').name = CurrentName
            /\ Last(invoked').args = EmittedArguments(RawOf(pending[idx]))
            /\ Last(tool_call_log').tool_name = CurrentName
            /\ Last(tool_call_log').arguments = EmittedArguments(RawOf(pending[idx]))
            /\ Last(invoked').raised = NoError =>
                  /\ Last(tool_call_log').result = ValueResult(Last(invoked').ret)
                  /\ Last(messages').content.of = ValueResult(Last(invoked').ret)]_vars

ClientErrors == {"Login failed with", "failed with", "Invalid JSON response from"}

\* C8 as stated: an error of the client raised while a tool call is executed
\* ends run() with that error and is turned into no tool message.
C8_ClientErrorsAbort ==
    (invoked # <<>> /\ Last(invoked).raised.cls = "SymmonsAPIError") =>
        /\ pc = "failed"
        /\ outcome.error = Last(invoked).raised

\* C8 amended: an error of the client (login failure, status >= 400 after the
\* retry decision, non-JSON body) raised while a tool call is executed does
\* not end run(): it is turned into the tool message {"error": <message>} and
\* recorded, and the loop goes on.
C8_ClientErrorsConverted ==
    [][(/\ Len(invoked') = Len(invoked) + 1
        /\ Last(invoked').raised.cls = "SymmonsAPIError") =>
            /\ Last(invoked').raised.what \in ClientErrors
            /\ lastCall'.raised = Last(invoked').raised
            /\ messages' = Append(messages,
                                  ToolMessage(json_dumps(ErrorResult(
                                                  ExcStr(Last(invoked').raised))),
                                              pending[idx].id, CurrentName))
            /\ Last(tool_call_log').result = ErrorResult(ExcStr(Last(invoked').raised))
            /\ Len(tool_call_log') = Len(tool_call_log) + 1
            /\ LoopGoesOn]_vars

\* a request answered 401 twice inside a tool call, and the loop back at its head
C8_Witness ==
    /\ pc = "loop"
    /\ invoked # <<>>
    /\ Last(invoked).raised =
          StatusError("failed with", "GET /api/v2/property/{property_id}", Unauthorized)
    /\ Last(messages).type = "tool"
    /\ Last(messages).content.of = ErrorResult(ExcStr(Last(invoked).raised))

AiBefore(p) == CHOOSE j \in AiIndexes : j < p /\ \A k \in AiIndexes : k < p => k <= j
\* the tool messages that follow assistant message j
AnswersOf(j) == { p \in ToolIndexes : p > j /\ \A k \in AiIndexes : k <= j \/ k > p }
\* the calls assistant message j issued
IssuedBy(j) == messages[j].tool_calls \o messages[j].legacy
IssuedIds(j) == { IssuedBy(j)[i].id : i \in 1..Len(IssuedBy(j)) }
\* the calls of assistant message j that the loop dispatches
NamedCalls(j) ==
    SelectSeq(_extract_tool_calls(messages[j]), LAMBDA e : Truthy(e.function.name))
\* the turn of assistant message j is over: the model was, or is about to be,
\* invoked again
TurnOver(j) == (\E k \in AiIndexes : k > j) \/ pc \in {"loop", "returned"}

AnswersCarryIssuedIds ==
    \A p \in ToolIndexes :
        /\ \E j \in AiIndexes : j < p
        /\ messages[p].tool_call_id \in IssuedIds(AiBefore(p))

\* C10 as stated: every tool message carries the id of a call issued by the
\* most recent assistant message before it, and every call an assistant
\* message issued is answered by exactly one tool message before the next
\* model invocation.
C10_EveryCallAnswered ==
    /\ AnswersCarryIssuedIds
    /\ \A j \in AiIndexes :
          TurnOver(j) =>
             \A i \in 1..Len(IssuedBy(j)) :
                Cardinality({ p \in AnswersOf(j) :
                                messages[p].tool_call_id = IssuedBy(j)[i].id }) = 1

\* C10 amended: every tool message carries the id of a call issued by the most
\* recent assistant message before it, and the calls that extraction keeps
\* from an assistant message and that name a tool are answered in order, by
\* exactly one tool message each, before the next model invocation; a call
\* without a tool name is answered by none.
C10_NamedCallsAnswered ==
    /\ AnswersCarryIssuedIds
    /\ \A j \in AiIndexes :
          /\ \A p \in AnswersOf(j) :
                /\ p - j <= Len(NamedCalls(j))
                /\ messages[p].tool_call_id = NamedCalls(j)[p - j].id
                /\ messages[p].name = NamedCalls(j)[p - j].function.name
          /\ TurnOver(j) => Cardinality(AnswersOf(j)) = Len(NamedCalls(j))

\* a turn of two calls, the first without a name, answered by one tool message
C10_Witness ==
    /\ pc = "loop"
    /\ Last(messages).type = "tool"
    /\ Last(messages).tool_call_id = "c4"
    /\ messages[Len(messages) - 1].type = "ai"
    /\ Len(IssuedBy(Len(messages) - 1)) = 2

-----------------------------------------------------------------------------
(* Properties of a turn with several calls *)

\* the name and the arguments a call was emitted with under the keys that
\* _extract_tool_calls reads
EmittedName(raw) == IF raw.function.kind # "none" THEN raw.function.name ELSE raw.name
\* the positions of the calls of assistant message j that come first under
\* their id, or carry no id
FirstPositions(j) ==
    { i \in 1..Len(IssuedBy(j)) :
        ~Truthy(IssuedBy(j)[i].id)
        \/ \A h \in 1..(i - 1) : IssuedBy(j)[h].id # IssuedBy(j)[i].id }
\* of those, the ones that name a tool
DispatchedPositions(j) == { i \in FirstPositions(j) : Truthy(EmittedName(IssuedBy(j)[i])) }
\* the k-th smallest member of a set of positions
Nth(S, k) == CHOOSE i \in S : Cardinality({ h \in S : h <= i }) = k
\* the tool messages appended before assistant message j
ToolsBefore(j) == Cardinality({ p \in ToolIndexes : p < j })

\* C11 as stated: once the turn of an assistant message is over, every call it
\* emitted has been dispatched and answered, the k-th tool message and the k-th
\* record belonging to the k-th emitted call.
C11_AllEmittedInOrder ==
    \A j \in AiIndexes :
        TurnOver(j) =>
            /\ Cardinality(AnswersOf(j)) = Len(IssuedBy(j))
            /\ \A k \in 1..Len(IssuedBy(j)) :
                  /\ messages[j + k].type = "tool"
                  /\ messages[j + k].tool_call_id = IssuedBy(j)[k].id
                  /\ tool_call_log[ToolsBefore(j) + k].tool_name =
                        EmittedName(IssuedBy(j)[k])

\* C11 amended: the calls of a turn that come first under their id and name a
\* tool are dispatched in emission order, the k-th tool message and the k-th
\* record of the turn belonging to the k-th of them, the tool messages
\* following the assistant message without a gap; when the model is invoked
\* again, or the run returns, all of them have been dispatched. A turn that an
\* exception cut short has dispatched a prefix of them.
C11_KeptCallsInOrder ==
    \A j \in AiIndexes :
        LET kept == DispatchedPositions(j)
            n == Cardinality(AnswersOf(j))
        IN /\ AnswersOf(j) = (j + 1)..(j + n)
           /\ n <= Cardinality(kept)
           /\ \A k \in 1..n :
                 /\ messages[j + k].tool_call_id = IssuedBy(j)[Nth(kept, k)].id
                 /\ messages[j + k].name = EmittedName(IssuedBy(j)[Nth(kept, k)])
                 /\ tool_call_log[ToolsBefore(j) + k].tool_name =
                       EmittedName(IssuedBy(j)[Nth(kept, k)])
           /\ TurnOver(j) => n = Cardinality(kept)
           /\ (pc = "dispatch" /\ j = Len(messages) - n) => idx > n

\* a turn of three calls, the second a repeat of the first's id, answered by
\* two tool messages in emission order
C11_Witness ==
    /\ pc = "loop"
    /\ Len(messages) > 3
    /\ messages[Len(messages) - 2].type = "ai"
    /\ Len(IssuedBy(Len(messages) - 2)) = 3
    /\ messages[Len(messages) - 1].tool_call_id = "c1"
    /\ Last(messages).tool_call_id = "c3"
    /\ Last(tool_call_log).tool_name = "delete_property"

\* the assistant message of the current turn
CurrentAi == CHOOSE j \in AiIndexes : \A k \in AiIndexes : k <= j
\* the arguments a call carries, under whichever key its shape keeps them
CarriedArguments(raw) ==
    IF raw.function.kind # "none" THEN raw.function.arguments
    ELSE IF raw.args # PNone THEN raw.args
    ELSE raw.arguments
\* the first call of assistant message j that carries the id
FirstWithId(j, id) ==
    IssuedBy(j)[CHOOSE i \in 1..Len(IssuedBy(j)) :
                   /\ IssuedBy(j)[i].id = id
                   /\ \A h \in 1..(i - 1) : IssuedBy(j)[h].id # id]

\* C12 as stated: of the calls of a turn that share a non-empty id exactly one
\* is dispatched, with the name and the arguments of the first of them in
\* extraction order; no two dispatched calls of a turn share a non-empty id.
C12_FirstOccurrenceDispatched ==
    pc = "dispatch" =>
        /\ \A a, b \in 1..Len(pending) :
              (a # b /\ Truthy(pending[a].id)) => pending[a].id # pending[b].id
        /\ \A i \in 1..Len(IssuedBy(CurrentAi)) :
              LET id == IssuedBy(CurrentAi)[i].id
                  first == FirstWithId(CurrentAi, id)
              IN Truthy(id) =>
                    \E a \in 1..Len(pending) :
                        /\ pending[a].id = id
                        /\ pending[a].function.name = EmittedName(first)
                        /\ PyOr(pending[a].function.arguments, PNone) =
                              PyOr(CarriedArguments(first), PNone)

\* C13 as stated: every dispatched call, whatever its result, adds exactly one
\* record under its name to tool_call_log, and the records already there are
\* neither changed nor removed.
C13_EveryDispatchRecorded ==
    [][/\ pc # "idle" =>
             /\ Len(tool_call_log') >= Len(tool_call_log)
             /\ \A k \in 1..Len(tool_call_log) : tool_call_log'[k] = tool_call_log[k]
       /\ (Dispatching /\ Truthy(CurrentName)) =>
             /\ Len(tool_call_log') = Len(tool_call_log) + 1
             /\ Last(tool_call_log').tool_name = CurrentName
             /\ Last(tool_call_log').arguments \in
                   {EmptyDict, ParseArguments(CurrentArguments).val}]_vars

-----------------------------------------------------------------------------
(* Properties of the end of a run *)

\* the text a model message holds once blanks around it are dropped
ReplyText(message) ==
    IF message.content.kind = "str"
    THEN (IF message.content.s \in {"", "  "} THEN "" ELSE message.content.s)
    ELSE IF message.content.part.type = "text" /\ message.content.part.text \notin {"", "  "}
    THEN message.content.part.text
    ELSE ""
\* the step is a model invocation
ModelTurn == Len(messages') = Len(messages) + 1 /\ Last(messages').type = "ai"

\* C14: a model turn with a non-empty text reply and no tool calls ends run()
\* with that reply at once; the log is the one accumulated so far, and after
\* the return the model is not invoked and no tool is dispatched.
C14_TextReplyReturns ==
    /\ [][(/\ ModelTurn
           /\ Last(messages').tool_calls \o Last(messages').legacy = <<>>
           /\ ReplyText(Last(messages')) # "") =>
               /\ pc' = "returned"
               /\ outcome' = [kind |-> "reply", reply |-> ReplyText(Last(messages')),
                              error |-> NoError]
               /\ tool_call_log' = tool_call_log
               /\ invoked' = invoked
               /\ UNCHANGED clientVars]_vars
    /\ [](pc = "returned" =>
             ~ENABLED InvokeModel /\ ~ENABLED DispatchCall /\ ~ENABLED BudgetExceeded)
    /\ [][pc = "returned" => UNCHANGED <<messages, tool_call_log, invoked, outcome>>]_vars

\* a reply given as a list of parts, returned after a tool call was recorded
C14_Witness ==
    /\ pc = "returned"
    /\ outcome.reply = "Done."
    /\ Last(messages).type = "ai"
    /\ Len(tool_call_log) = 1
    /\ turn = 2

-----------------------------------------------------------------------------
(* Properties of the client's failures *)

\* the call reached the status check of _request: its last step was a send
Decided(call) == call.events # <<>> /\ Last(call.events).ev = "send"

\* C15: a call returns only on a response with status < 400; a response with
\* status >= 400 that reaches the status check, the retry decided, fails the
\* call with an API error made of the method and path, the status and the body
\* text of that response.
C15_ErrorStatusRaises ==
    /\ (lastCall.events # <<>> /\ lastCall.raised = NoError) =>
          Decided(lastCall) /\ Last(lastCall.events).status < 400
    /\ (Decided(lastCall) /\ Last(lastCall.events).status >= 400) =>
          /\ lastCall.raised.cls = "SymmonsAPIError"
          /\ lastCall.raised.what = "failed with"
          /\ lastCall.raised.subject = Last(lastCall.events).op
          /\ lastCall.raised.subject = lastCall.op
          /\ lastCall.raised.status = Last(lastCall.events).status
          /\ lastCall.raised.text = Last(lastCall.events).text

\* a request answered 500 at once
C15_Witness ==
    /\ Len(Sends(lastCall)) = 1
    /\ Decided(lastCall)
    /\ Last(lastCall.events).status = 500
    /\ lastCall.raised.status = 500
    /\ lastCall.raised.text = "Internal Server Error"

\* the errors a response with status >= 400 can end a call with
StatusFailures ==
    { StatusError(what, lastCall.op, [status |-> st, json |-> j]) :
        what \in {"failed with", "Login failed with"}, st \in 400..599, j \in BOOLEAN }
\* the send got a response with status < 400 whose body is no JSON
NotJson(e) == e.status < 400 /\ e.text = BodyText([status |-> e.status, json |-> FALSE])

\* C16: a response with status < 400 whose body is not JSON fails the call
\* with the error "Invalid JSON response from <method> <url>", which is none of
\* the errors a status >= 400 gives: the message differs and names no status;
\* and a status failure never reads as an invalid body.
C16_InvalidJsonDistinct ==
    /\ (Decided(lastCall) /\ NotJson(Last(lastCall.events))) =>
          /\ lastCall.raised = ApiError("Invalid JSON response from", lastCall.op, 0)
          /\ lastCall.raised \notin StatusFailures
          /\ \A f \in StatusFailures : f.what # lastCall.raised.what
    /\ (Decided(lastCall) /\ Last(lastCall.events).status >= 400) =>
          /\ lastCall.raised \in StatusFailures
          /\ lastCall.raised.what # "Invalid JSON response from"

\* a re-sent request answered 200 with a body that is no JSON
C16_Witness ==
    /\ Len(Sends(lastCall)) = 2
    /\ Decided(lastCall)
    /\ Last(lastCall.events).status = 200
    /\ NotJson(Last(lastCall.events))
    /\ lastCall.raised.what = "Invalid JSON response from"

-----------------------------------------------------------------------------
(* Properties of the token *)

\* C17 as stated: every resource request of a call, the first send and the
\* re-send after a 401 alike, goes out under Authorization: Bearer <token>,
\* the token being the non-null value that the _ensure_token just before
\* returned.
C17_SendsCarryToken ==
    \A i \in 1..Len(lastCall.events) :
        lastCall.events[i].ev = "send" =>
            /\ i > 1
            /\ lastCall.events[i - 1].ev = "ensure"
            /\ lastCall.events[i - 1].ret # None
            /\ lastCall.events[i].auth = lastCall.events[i - 1].ret

\* the last operation was _extract_token(payload)
Extracted == lastCall.op = "_extract_token"
\* candidate key number j of a mapping holds a non-empty string
Holds(kv, j) ==
    /\ CandidateKeys[j] \in DOMAIN kv
    /\ kv[CandidateKeys[j]][1] = "str"
    /\ kv[CandidateKeys[j]][2] # ""
\* what the claim says extraction from a mapping with a "model" entry yields,
\* two levels down
RECURSIVE Expected(_, _)
Expected(kv, model) ==
    IF \E j \in 1..Len(CandidateKeys) : Holds(kv, j)
    THEN kv[CandidateKeys[CHOOSE j \in 1..Len(CandidateKeys) :
                             Holds(kv, j) /\ \A k \in 1..(j - 1) : ~Holds(kv, k)]][2]
    ELSE IF model.kind = "dict" THEN Expected(model.kv, model.model)
    ELSE None

LoggedIn(call) ==
    { i \in 1..Len(call.events) :
        call.events[i].ev = "ensure" /\ call.events[i].login /\ ~call.events[i].raised }
Rejected(call) ==
    { i \in 1..Len(call.events) :
        /\ call.events[i].ev = "send"
        /\ call.events[i].status = 401
        /\ \A h \in 1..(i - 1) : call.events[h].ev # "send" }

\* the last login of a call
LastLogin(call) == call.events[CHOOSE i \in LoggedIn(call) : \A h \in LoggedIn(call) : h <= i]

\* C19: _ensure_token(force=True) logs in whatever the cache holds; after a
\* login that returned, the cached token is the value it extracted and the
\* timestamp the clock's reading when it returned; and the cached token and
\* timestamp change in no step but one that logs in or gets a 401.
C19_CacheChangesByLoginOnly ==
    /\ [](\A i \in 1..Len(lastCall.events) :
             (lastCall.events[i].ev = "ensure" /\ lastCall.events[i].force) =>
                 lastCall.events[i].login)
    /\ []((/\ LoggedIn(lastCall) # {}
           /\ \A r \in Rejected(lastCall) : \E i \in LoggedIn(lastCall) : i > r) =>
               /\ jwt = LastLogin(lastCall).ret
               /\ acquired_at = LastLogin(lastCall).done)
    /\ [][(jwt' # jwt \/ acquired_at' # acquired_at) =>
               \/ /\ LoggedIn(lastCall') # {}
                  /\ jwt' = LastLogin(lastCall').ret
                  /\ acquired_at' = LastLogin(lastCall').done
                  /\ now' = acquired_at'
               \/ /\ Rejected(lastCall') # {}
                  /\ jwt' = None
                  /\ acquired_at' = 0]_vars

\* a forced refresh replaced a token that was cached and not expired
C19_Witness ==
    /\ lastCall.op = "_ensure_token"
    /\ lastCall.events[1].force
    /\ lastCall.events[1].login
    /\ lastCall.events[1].ok.valid
    /\ ~lastCall.events[1].ok.cleared
    /\ lastCall.events[1].t - lastCall.events[1].ok.t <= TokenTtl
    /\ lastCall.events[1].ok.tok = "tA"
    /\ jwt = "tB"
    /\ acquired_at = now
    /\ now > 0

\* C20 as stated: after a login that returned and was not undone by a later
\* 401, SYM_API_JWT equals the cached token; and a client constructed under a
\* non-blank SYM_API_JWT holds that value as its token, acquired at
\* construction, so that a request made within the time to live logs in only
\* after a 401.
C20_EnvironmentMirrorsToken ==
    /\ (/\ LoggedIn(lastCall) # {}
        /\ \A r \in Rejected(lastCall) : \E i \in LoggedIn(lastCall) : i > r) =>
            environ = jwt
    /\ (lastCall = NoCall /\ Truthy(environ) /\ Strip(environ) # "") =>
            /\ jwt = environ
            /\ acquired_at = 0
            /\ now <= TokenTtl => ~_token_expired(Client, now)

-----------------------------------------------------------------------------
(* Properties of argument normalisation and of the turn budget *)

\* C21 as stated: at dispatch null or empty-string arguments become the empty
\* mapping, a mapping is passed through unchanged and a string is decoded as
\* JSON; and a call whose arguments decode to a value that is no mapping ends
\* in a structured error result appended as a tool message, the run going on.
C21_NonMappingArgumentsRecovered ==
    [][(/\ Dispatching
        /\ Truthy(CurrentName)
        /\ CurrentName \in Registry
        /\ ~ParseArguments(CurrentArguments).raised) =>
            /\ (CurrentArguments.ty = "none" \/ CurrentArguments.s = "") =>
                  Last(tool_call_log').arguments = EmptyDict
            /\ CurrentArguments.ty = "dict" =>
                  Last(tool_call_log').arguments = CurrentArguments
            /\ ParseArguments(CurrentArguments).val.ty # "dict" =>
                  /\ Last(messages').type = "tool"
                  /\ Last(messages').content.of.error
                  /\ Len(messages') = Len(messages) + 1
                  /\ LoopGoesOn]_vars

\* the model output carries no tool call and no text but blanks
Blank(message) ==
    /\ message.type = "ai"
    /\ message.tool_calls \o message.legacy = <<>>
    /\ ReplyText(message) = ""

\* every model turn of the run so far was blank
AllBlank == \A k \in AiIndexes : Blank(messages[k])

\* C22: a model turn with no tool calls and empty or whitespace-only content
\* uses one turn of the budget, appends the assistant message and nothing
\* else, and leaves the run at the head of the loop, where the model is
\* invoked again as long as the budget lasts; max_turns such turns in a row
\* end the run with the budget error.
C22_BlankTurnUsesBudget ==
    /\ [][(ModelTurn /\ Blank(Last(messages'))) =>
               /\ turn' = turn + 1
               /\ messages' = Append(messages, Last(messages'))
               /\ pc' = "loop"
               /\ UNCHANGED <<tool_call_log, invoked, outcome>>
               /\ UNCHANGED clientVars]_vars
    /\ [](pc = "loop" /\ turn < MaxTurns =>
             ENABLED InvokeModel /\ ~ENABLED BudgetExceeded /\ ~ENABLED DispatchCall)
    /\ [](pc = "loop" /\ turn = MaxTurns =>
             ENABLED BudgetExceeded /\ ~ENABLED InvokeModel /\ ~ENABLED DispatchCall)
    /\ []((pc \in {"loop", "failed", "returned"} /\ turn > 0 /\ AllBlank) =>
             /\ pc # "returned"
             /\ turn <= MaxTurns
             /\ Cardinality(AiIndexes) = turn
             /\ Len(messages) = base + turn
             /\ tool_call_log = <<>>
             /\ pc = "failed" => (turn = MaxTurns /\ outcome.error = BudgetError))

\* max_turns blank turns ended the run with the budget error
C22_Witness ==
    /\ pc = "failed"
    /\ outcome.error = BudgetError
    /\ AllBlank
    /\ Cardinality(AiIndexes) = MaxTurns
    /\ \E k \in AiIndexes : messages[k].content.kind = "str" /\ messages[k].content.s = "  "

-----------------------------------------------------------------------------
(* Properties of failed logins *)

\* the call ended in an _ensure_token whose login failed
LoginFailed(call) ==
    /\ call.events # <<>>
    /\ Last(call.events).ev = "ensure"
    /\ Last(call.events).raised

\* C25: an _ensure_token whose login fails (status >= 400 or a body that is
\* no JSON) leaves the cached token, its timestamp and SYM_API_JWT as they
\* were when it was entered -- for the forced login of the 401 path that is
\* the cleared cache; a failed refresh of an expired token keeps the token,
\* still expired, and the next request logs in again.
C25_FailedLoginChangesNothing ==
    /\ [][(LoginFailed(lastCall') /\ lastCall'.events[1].t = now) =>
              /\ lastCall'.raised.what \in {"Login failed with", "Invalid JSON response from"}
              /\ IF Len(lastCall'.events) = 1
                 THEN /\ jwt' = jwt
                      /\ acquired_at' = acquired_at
                      /\ environ' = environ
                      /\ ~lastCall'.events[1].force =>
                            (~Truthy(jwt') \/ now' - acquired_at' > TokenTtl)
                 ELSE /\ jwt' = None
                      /\ acquired_at' = 0
                      /\ environ' = (IF /\ lastCall'.events[1].login
                                        /\ Truthy(lastCall'.events[1].ret)
                                     THEN lastCall'.events[1].ret ELSE environ)]_vars
    /\ [][(/\ LoginFailed(lastCall)
           /\ ~Last(lastCall.events).force \/ Len(lastCall.events) > 1
           /\ lastCall' # lastCall
           /\ lastCall'.events # <<>>) =>
              lastCall'.events[1].login]_vars

\* the refresh of an expired token failed and the token is still cached
C25_Witness ==
    /\ LoginFailed(lastCall)
    /\ Len(lastCall.events) = 1
    /\ ~lastCall.events[1].force
    /\ lastCall.events[1].ok.valid
    /\ lastCall.events[1].ok.tok = "tA"
    /\ jwt = "tA"
    /\ environ = "tA"
    /\ now - acquired_at > TokenTtl

\* what _request does about a token the server answered 401 to: the cache is
\* cleared, one forced login follows, and what is sent then is what that login
\* returned; a failed login leaves the cache cleared
ClearedOn401 ==
    Rejected(lastCall) # {} =>
        /\ Len(Forced(lastCall)) = 1
        /\ Forced(lastCall)[1].login
        /\ Forced(lastCall)[1].t >= Sends(lastCall)[1].t
        /\ IF Forced(lastCall)[1].raised
           THEN /\ Len(Sends(lastCall)) = 1
                /\ jwt = None
                /\ acquired_at = 0
           ELSE /\ Len(Sends(lastCall)) = 2
                /\ Sends(lastCall)[2].auth = Fmt(Forced(lastCall)[1].ret)
                /\ jwt = Forced(lastCall)[1].ret

\* the request after a 401 path whose login failed logs in before it sends
LoginBeforeNextSend ==
    (/\ Rejected(lastCall) # {}
     /\ LoginFailed(lastCall)
     /\ lastCall' # lastCall
     /\ lastCall'.events # <<>>) =>
        /\ lastCall'.events[1].ev = "ensure"
        /\ lastCall'.events[1].login
        /\ Sends(lastCall') # <<>> =>
              Sends(lastCall')[1].auth \in {Fmt(lastCall'.events[1].ret), NoAuth}

\* C26 as stated: after a 401 the rejected token is never sent again: it is
\* cleared before the forced login, the re-send goes out under another token,
\* a failed forced login leaves the client with no cached token and timestamp
\* 0, and the next request logs in before it sends.
C26_RejectedTokenNeverResent ==
    /\ [](ClearedOn401)
    /\ [](Len(Sends(lastCall)) = 2 => Sends(lastCall)[2].auth # Sends(lastCall)[1].auth)
    /\ [][LoginBeforeNextSend]_vars

\* C26 amended: after a 401 the cached copy of the rejected token is never
\* used again: it is cleared before the forced login, the re-send carries
\* whatever that login returned (the same string if the server issues it
\* again), a failed forced login leaves the client with no cached token and
\* timestamp 0, and the next request logs in before it sends.
C26_RejectedCopyNeverReused ==
    /\ [](ClearedOn401)
    /\ [][LoginBeforeNextSend]_vars

\* a token was rejected and the forced login failed
C26_Witness ==
    /\ Rejected(lastCall) # {}
    /\ LoginFailed(lastCall)
    /\ lastCall.events[1].ret = "tA"
    /\ Sends(lastCall)[1].auth = Fmt("tA")
    /\ jwt = None
    /\ acquired_at = 0
    /\ environ = "tA"

-----------------------------------------------------------------------------
(* Properties of the conversation *)

\* what the claim compares of a message: role, content, the id it answers and
\* the tool calls it issued
RoleTagged(message) ==
    [type |-> message.type, content |-> message.content,
     tool_call_id |-> message.tool_call_id,
     tool_calls |-> message.tool_calls \o message.legacy]

\* C24 as stated: a run given the messages the run before returned as its
\* conversation starts from the same sequence of role-tagged messages (roles,
\* contents, tool_call_ids, assistant tool calls) followed by the new user
\* prompt.
C24_ContinuationRoundTrip ==
    [][(pc = "returned" /\ pc' = "loop") =>
           /\ Len(messages') >= Len(messages) + 1
           /\ \A k \in 1..Len(messages) :
                 RoleTagged(messages'[Len(messages') - 1 - Len(messages) + k])
                    = RoleTagged(messages[k])
           /\ Last(messages') = HumanMessage(Text("next user prompt"))]_vars

\* the conversation of a run opens with the system prompt, the converted
\* history and the user prompt, and what the loop added starts with a model
\* output
WellOrdered ==
    /\ base >= 2
    /\ base <= Len(messages)
    /\ messages[1] = SystemMessage(Text("system prompt"))
    /\ messages[base] = HumanMessage(Text("user prompt"))
    /\ \E conversation \in Histories :
          SubSeq(messages, 2, base - 1) = _convert_history(conversation, "uuid-1")
    /\ \A p \in ToolIndexes : \E j \in AiIndexes : j < p
    /\ \A k \in LoopMessages : messages[k].type \in {"ai", "tool"}
    /\ Cardinality(AiIndexes) = turn

\* C27: during a run the conversation starts with the system prompt, the
\* converted history and the user prompt; every tool message comes after the
\* model output of its turn; a step appends at most one message and removes or
\* reorders none; and the loop's tool messages are as many as the records of
\* the tool-call log, a call without a tool name adding neither.
C27_ConversationAppendOnly ==
    /\ [](pc # "idle" => WellOrdered /\ Cardinality(ToolIndexes) = Len(tool_call_log))
    /\ [][pc # "idle" =>
             /\ Len(messages') \in {Len(messages), Len(messages) + 1}
             /\ SubSeq(messages', 1, Len(messages)) = messages
             /\ base' = base
             /\ (Len(tool_call_log') = Len(tool_call_log) + 1) <=>
                   (Len(messages') = Len(messages) + 1 /\ Last(messages').type = "tool")
             /\ (Dispatching /\ ~Truthy(CurrentName)) =>
                   /\ messages' = messages
                   /\ tool_call_log' = tool_call_log
                   /\ pc' # "failed"]_vars

\* one tool message and one record after a turn of two calls, the first of
\* them without a name, in a run that began from a history
C27_Witness ==
    /\ pc = "returned"
    /\ base = 4
    /\ Len(tool_call_log) = 1
    /\ Cardinality(ToolIndexes) = 1
    /\ Len(messages) = base + 3
    /\ \E k \in AiIndexes : messages[k].legacy = <<CallNameless, CallMalformed>>

-----------------------------------------------------------------------------
(* Properties of the tool registry *)

Advertised == { TOOL_DEFINITIONS[i] : i \in 1..Len(TOOL_DEFINITIONS) }

\* C30: the names advertised to the model are the keys of the registry, no
\* name twice, and a call to an advertised tool is dispatched to its callable
\* or fails on its arguments: neither its record nor its tool message holds
\* the "Unknown tool" error.
C30_AdvertisedToolsRegistered ==
    /\ [](/\ Advertised = Registry
          /\ Cardinality(Advertised) = Len(TOOL_DEFINITIONS))
    /\ [](\A k \in 1..Len(tool_call_log) :
             tool_call_log[k].tool_name \in Advertised =>
                 tool_call_log[k].result # UnknownToolResult(tool_call_log[k].tool_name))
    /\ [][(Dispatching /\ Truthy(CurrentName) /\ CurrentName \in Advertised
           /\ Len(messages') = Len(messages) + 1) =>
              /\ Last(messages').content # json_dumps(UnknownToolResult(CurrentName))
              /\ Last(tool_call_log').result # UnknownToolResult(CurrentName)
              /\ \/ ParseArguments(CurrentArguments).raised
                 \/ ~Binds(CurrentName, ParseArguments(CurrentArguments).val)
                 \/ /\ invoked' # invoked
                    /\ Last(invoked').name = CurrentName]_vars

\* the search tool, advertised and called, answered that no collection is
\* configured
C30_Witness ==
    /\ ~postman
    /\ tool_call_log # <<>>
    /\ Last(tool_call_log).tool_name = "search_postman_endpoints"
    /\ Last(tool_call_log).result =
          ErrorResult(ExcStr(ValueError("Postman collection not configured")))
    /\ Last(messages).type = "tool"

-----------------------------------------------------------------------------
(* Properties of the endpoint search *)

Searched == lastCall.op = "search_endpoints"
\* where an endpoint stands in the collection
PositionOf(endpoint) == CHOOSE k \in 1..Len(Endpoints) : Endpoints[k] = endpoint
\* the endpoint's text holds the term
MatchesTerm(endpoint, term) == Count(Haystack(endpoint), term) > 0

\* C29 as stated: a search with a non-blank query and limit > 0 returns at
\* most limit endpoints and counts them in result_count; each of them passes
\* the method and folder filters and matches at least one term of the query;
\* they come by falling score, equal scores in collection order; a blank
\* query or a limit <= 0 fails before the collection is loaded.
C29_SearchReturnsRankedMatches ==
    Searched =>
        IF lastCall.query \in {NoText, <<>>} \/ IsBlank(lastCall.query) \/ lastCall.limit <= 0
        THEN /\ lastCall.raised.cls = "ValueError"
             /\ ~lastCall.loaded
        ELSE lastCall.raised = NoError =>
             LET results == lastCall.results
                 terms == Split(Lower(lastCall.query))
             IN /\ lastCall.result_count = Len(results)
                /\ Len(results) <= lastCall.limit
                /\ \A k \in 1..Len(results) :
                      /\ Truthy(lastCall.method) =>
                            results[k].method = Upper(lastCall.method)
                      /\ lastCall.folder_contains \notin {NoText, <<>>} =>
                            \E f \in 1..Len(results[k].folders) :
                                Count(Lower(results[k].folders[f]),
                                      Lower(lastCall.folder_contains)) > 0
                      /\ \E t \in 1..Len(terms) : MatchesTerm(results[k], terms[t])
                /\ \A k \in 1..Len(results), m \in 1..Len(results) :
                      k < m =>
                         /\ Score(results[k], terms) >= Score(results[m], terms)
                         /\ Score(results[k], terms) = Score(results[m], terms) =>
                               PositionOf(results[k]) < PositionOf(results[m])

-----------------------------------------------------------------------------
(* Properties of the requirements workflow *)

\* the file the workflow wrote for its group number k
FileOf(k) == CHOOSE f \in workflow.output_dir : f.path = workflow.written_files[k]

-----------------------------------------------------------------------------
(* Properties of a client shared by two threads *)

\* C23 as stated: with two requests at once on one client and every login
\* yielding a token, no _ensure_token(force=False) returns None and every
\* request goes out under Authorization: Bearer <token> with a token that is
\* not None, whatever the other request does on its 401 path.
C23_SharedClientAlwaysAuthorized ==
    \A t \in Threads :
        /\ \A k \in 1..Len(threads[t].rets) :
              ~threads[t].rets[k].force => threads[t].rets[k].ret # None
        /\ \A k \in 1..Len(threads[t].sent) :
              threads[t].sent[k].auth \notin {NoAuth, Fmt(None)}


====
